---- MODULE Spec2Model ----
(***************************************************************************)
(* Incremental spatial fetch/cache of the map page: the store's            *)
(* accumulated place/building pool and fetched-bbox history                *)
(* (store/appStore.ts), the coverage-gap computation (lib/geo.ts           *)
(* getUnfetchedAreas) and the query loop of the page (app/page.tsx).       *)
(*                                                                         *)
(* Geometry is modelled on an integer grid.  A BoundingBox is the tuple    *)
(* <<s, w, n, e>> with 0 <= s < n <= GridH and 0 <= w < e <= GridW.  A      *)
(* polygon is the set of unit cells <<x, y>> it covers; the polygon        *)
(* difference is the set difference of the cell sets, it yields null when  *)
(* nothing is left, and a MultiPolygon is a cell set with more than one    *)
(* edge-connected component.  turf.area is the number of cells.            *)
(***************************************************************************)
EXTENDS Integers, Sequences, FiniteSets, TLC

\* ---- bounds of the model ----
GridW == 2
GridH == 1
NumPlaces == 2
NumBuildings == 1
MaxCache == 1
\* the revisions an element of the map data goes through
NumRevisions == 2
\* the merges applied to one pool
MaxMerges == 3

\* ---- program constants ----
DEFAULT_MAP_ZOOM == 13
MIN_ZOOM_LEVEL_FOR_FETCH == 13
MIN_FETCH_ZOOM_LEVEL == 13
SEARCH_ZOOM == 14
GPS_ZOOM == 15

\* null for a BoundingBox | null, a Coordinates | null, a GeocodingResult | null
Null == <<>>

\* BoundingBox = [south, west, north, east]
Boxes ==
  { b \in (0..GridH) \X (0..GridW) \X (0..GridH) \X (0..GridW) :
      b[1] < b[3] /\ b[2] < b[4] }

\* the boxes of unit size
UnitBoxes == { b \in Boxes : b[3] = b[1] + 1 /\ b[4] = b[2] + 1 }

\* Coordinates {lat, lng} of the centre of a box, in half units
CenterOf(b) == << b[1] + b[3], b[2] + b[4] >>

DEFAULT_MAP_CENTER == << GridH, GridW >>

\* where the device is: the GPS fix of navigator.geolocation
GpsFix == CenterOf(<< 0, 0, 1, 1 >>)

PlaceIds == 1..NumPlaces
BuildingIds == 1..NumBuildings
\* the zoom levels the user moves the map between: the fetch threshold and
\* the level below it
ObservedZooms == (MIN_ZOOM_LEVEL_FOR_FETCH - 1) .. MIN_ZOOM_LEVEL_FOR_FETCH

\* ---- lib/geo.ts ----

\* bboxToPolygon with the corners given as [lat, lng] instead of [lng, lat]
bboxToPolygonLatLng(bbox) ==
  LET s == bbox[1]
      w == bbox[2]
      n == bbox[3]
      e == bbox[4]
  IN  (s .. (n - 1)) \X (w .. (e - 1))

\* bboxToPolygon: the rectangle [w,s]-[e,s]-[e,n]-[w,n] as a cell set
bboxToPolygon(bbox) ==
  LET s == bbox[1]
      w == bbox[2]
      n == bbox[3]
      e == bbox[4]
  IN  (w .. (e - 1)) \X (s .. (n - 1))

\* turf.difference of two polygons: Null when the result is empty
turfDifference(a, b) == a \ b

\* subtractLoop with the "else return []" branch lost: a null difference
\* leaves the remainder as it was
RECURSIVE subtractLoopKeepsOnNull(_, _, _)
subtractLoopKeepsOnNull(viewportPoly, alreadyFetchedAreas, i) ==
  IF i > Len(alreadyFetchedAreas) THEN viewportPoly
  ELSE LET diff == turfDifference(viewportPoly, bboxToPolygon(alreadyFetchedAreas[i]))
       IN  IF diff # {} THEN subtractLoopKeepsOnNull(diff, alreadyFetchedAreas, i + 1)
           ELSE subtractLoopKeepsOnNull(viewportPoly, alreadyFetchedAreas, i + 1)

\* subtractLoop that subtracts the first history entry only
RECURSIVE subtractLoopFirstOnly(_, _, _)
subtractLoopFirstOnly(viewportPoly, alreadyFetchedAreas, i) ==
  IF i > Len(alreadyFetchedAreas) \/ i > 1 THEN viewportPoly
  ELSE LET diff == turfDifference(viewportPoly, bboxToPolygon(alreadyFetchedAreas[i]))
       IN  IF diff # {} THEN subtractLoopFirstOnly(diff, alreadyFetchedAreas, i + 1)
           ELSE {}

\* turf.difference throws: the polygon to subtract is empty
turfDifferenceThrows(a, b) == b = {}

\* subtractLoop that gives the viewport up when turf.difference throws
RECURSIVE subtractLoopGivesUpOnThrow(_, _, _)
subtractLoopGivesUpOnThrow(viewportPoly, alreadyFetchedAreas, i) ==
  IF i > Len(alreadyFetchedAreas) THEN viewportPoly
  ELSE LET fetchedPoly == bboxToPolygon(alreadyFetchedAreas[i])
           diff == turfDifference(viewportPoly, fetchedPoly)
       IN  IF turfDifferenceThrows(viewportPoly, fetchedPoly) THEN {}
           ELSE IF diff # {}
           THEN subtractLoopGivesUpOnThrow(diff, alreadyFetchedAreas, i + 1)
           ELSE {}

\* the loop of getUnfetchedAreas: the running remainder after subtracting
\* alreadyFetchedAreas[i..]; {} stands for the early "return []"; an
\* exception of turf.difference is caught and the loop goes on
RECURSIVE subtractLoop(_, _, _)
subtractLoop(viewportPoly, alreadyFetchedAreas, i) ==
  IF i > Len(alreadyFetchedAreas) THEN viewportPoly
  ELSE LET fetchedPoly == bboxToPolygon(alreadyFetchedAreas[i])
           diff == turfDifference(viewportPoly, fetchedPoly)
       IN  IF turfDifferenceThrows(viewportPoly, fetchedPoly)
           THEN subtractLoop(viewportPoly, alreadyFetchedAreas, i + 1)
           ELSE IF diff # {} THEN subtractLoop(diff, alreadyFetchedAreas, i + 1)
           ELSE {}

Adjacent(c, d) ==
  \/ c[1] = d[1] /\ (c[2] = d[2] + 1 \/ d[2] = c[2] + 1)
  \/ c[2] = d[2] /\ (c[1] = d[1] + 1 \/ d[1] = c[1] + 1)

\* the simple polygon of a MultiPolygon that contains the cells of seed
RECURSIVE polygonOf(_, _)
polygonOf(seed, S) ==
  LET nxt == seed \cup { c \in S : \E d \in seed : Adjacent(c, d) }
  IN  IF nxt = seed THEN seed ELSE polygonOf(nxt, S)

\* first cell in the enumeration order of the clipping sweep (west to east,
\* then south to north)
firstCell(S) ==
  CHOOSE c \in S : \A d \in S : c[1] < d[1] \/ (c[1] = d[1] /\ c[2] <= d[2])

\* geometry.coordinates of a MultiPolygon: its constituent polygons, in order
RECURSIVE multiPolygonCoordinates(_)
multiPolygonCoordinates(S) ==
  IF S = {} THEN << >>
  ELSE LET p == polygonOf({firstCell(S)}, S)
       IN  << p >> \o multiPolygonCoordinates(S \ p)

\* getUnfetchedAreas(currentViewport, alreadyFetchedAreas): the sequence of
\* polygons (cell sets) of the viewport not yet covered
getUnfetchedAreas(currentViewport, alreadyFetchedAreas) ==
  LET viewportPoly == subtractLoop(bboxToPolygon(currentViewport), alreadyFetchedAreas, 1)
  IN  IF viewportPoly = {} THEN << >>
      ELSE multiPolygonCoordinates(viewportPoly)

\* turf.area
turfArea(poly) == Cardinality(poly)

\* turf.bbox: [minX, minY, maxX, maxY]
turfBbox(poly) ==
  LET xs == { c[1] : c \in poly }
      ys == { c[2] : c \in poly }
      minOf(T) == CHOOSE m \in T : \A k \in T : m <= k
      maxOf(T) == CHOOSE m \in T : \A k \in T : m >= k
  IN  << minOf(xs), minOf(ys), maxOf(xs) + 1, maxOf(ys) + 1 >>

\* isCoordinateInBbox, on half-unit coordinates
isCoordinateInBbox(coord, bbox) ==
  /\ coord[1] >= 2 * bbox[1] /\ coord[1] <= 2 * bbox[3]
  /\ coord[2] >= 2 * bbox[2] /\ coord[2] <= 2 * bbox[4]

\* ---- app/page.tsx: fetchOsmDataForUnfetchedAreas, up to the request ----

\* largestLoop that keeps turf.bbox's [minX, minY, maxX, maxY] order
RECURSIVE largestLoopBboxOrder(_, _, _, _)
largestLoopBboxOrder(unfetchedPolygons, i, largestArea, targetBbox) ==
  IF i > Len(unfetchedPolygons) THEN targetBbox
  ELSE LET poly == unfetchedPolygons[i]
           bboxCoords == turfBbox(poly)
           area == turfArea(poly)
       IN  IF area > largestArea
           THEN largestLoopBboxOrder(unfetchedPolygons, i + 1, area, bboxCoords)
           ELSE largestLoopBboxOrder(unfetchedPolygons, i + 1, largestArea, targetBbox)

\* largestLoop that lets a later polygon of the same area win
RECURSIVE largestLoopLastWins(_, _, _, _)
largestLoopLastWins(unfetchedPolygons, i, largestArea, targetBbox) ==
  IF i > Len(unfetchedPolygons) THEN targetBbox
  ELSE LET poly == unfetchedPolygons[i]
           bboxCoords == turfBbox(poly)
           area == turfArea(poly)
       IN  IF area >= largestArea
           THEN largestLoopLastWins(unfetchedPolygons, i + 1, area,
                  << bboxCoords[2], bboxCoords[1], bboxCoords[4], bboxCoords[3] >>)
           ELSE largestLoopLastWins(unfetchedPolygons, i + 1, largestArea, targetBbox)

\* the forEach over unfetchedPolygons: [area, bbox] of the largest so far
RECURSIVE largestLoop(_, _, _, _)
largestLoop(unfetchedPolygons, i, largestArea, targetBbox) ==
  IF i > Len(unfetchedPolygons) THEN targetBbox
  ELSE LET poly == unfetchedPolygons[i]
           bboxCoords == turfBbox(poly)
           area == turfArea(poly)
       IN  IF area > largestArea
           THEN largestLoop(unfetchedPolygons, i + 1, area,
                  << bboxCoords[2], bboxCoords[1], bboxCoords[4], bboxCoords[3] >>)
           ELSE largestLoop(unfetchedPolygons, i + 1, largestArea, targetBbox)

\* the bounding box requested for (viewport, history), Null when none is
targetBboxOf(currentViewportBounds, history) ==
  LET unfetchedPolygons == getUnfetchedAreas(currentViewportBounds, history)
  IN  IF Len(unfetchedPolygons) = 0 THEN Null
      ELSE largestLoop(unfetchedPolygons, 1, 0, Null)

\* ---- store/appStore.ts: AppState, and the query cache of app/page.tsx ----

VARIABLES
  mapRef,                \* the Leaflet map instance is set (TRUE) or null
  mapCenter,             \* Coordinates, half units
  mapZoom,
  mapBoundsForQuery,     \* BoundingBox | null
  hasMapMoved,
  userCoordinates,       \* Coordinates | null
  allFetchedPlaces,      \* sequence of place records <<id, revision>>
  allFetchedBuildings,   \* sequence of building records <<id, revision>>
  fetchedBoundsHistory,  \* sequence of BoundingBox
  queryCache,            \* the queries of useQuery, one record per query key
  \* the sun/shade classifier of MapComponent (effect 6)
  sunPosition,           \* SunPosition | null, the state of useSunPosition
  buildingsFromStore,    \* the store's buildings, as the effect reads them
  allPlacesFromStore,    \* the store's places, as the effect reads them
  processedPlaces,       \* the store's classified places
  coreLogic,             \* which of the two versions of effect 6 is built in
  lastPass,              \* inputs and output of a remembered classification pass
  effectError,           \* an exception has left effect 6: the component is unmounted
  \* calls of the exported pure functions
  casterCall,            \* a call of calculateShadowPolygon: arguments, result
  mergeCall,             \* two fetch results and the order they were merged in
  libCall,               \* a call of a function of lib/: arguments, outcome
  \* the time of the store and the clock of the device
  clock,                 \* new Date(), minutes
  currentTime,
  isTimeManuallyControlled,
  tickCall,              \* the last call of setCurrentTime: its argument, and
                         \* whether the store took it
  \* useSunAlerts
  bookmarks,             \* the ids of the bookmarked places
  notifiedEventsRef,     \* sequence of [placeId, predictedSunTime]
  notifications,         \* the Notification objects created, with their time
  \* the markers of MapComponent
  markerInstances,       \* the state: place ids that have a tracked marker
  mapMarkers             \* place ids whose marker is a layer of the map

storeVars ==
  << mapRef, mapCenter, mapZoom, mapBoundsForQuery, hasMapMoved,
     userCoordinates, allFetchedPlaces, allFetchedBuildings, fetchedBoundsHistory >>

fetchVars == << storeVars, queryCache >>

shadeVars ==
  << sunPosition, buildingsFromStore, allPlacesFromStore, processedPlaces,
     coreLogic, lastPass, effectError >>

\* the state of the hooks and of the library calls outside the classifier
timeVars == << clock, currentTime, isTimeManuallyControlled, tickCall >>
alertVars == << bookmarks, notifiedEventsRef, notifications >>
markerVars == << markerInstances, mapMarkers >>
hookVars == << libCall, timeVars, alertVars, markerVars >>

nonFetchVars == << shadeVars, casterCall, mergeCall, hookVars >>

vars == << fetchVars, nonFetchVars >>

\* everything but the call of a function of lib/
nonLibVars == << fetchVars, shadeVars, casterCall, mergeCall >>

\* the time of the store as created, at minute 0 of the clock
TimeInit ==
  /\ clock = 0
  /\ currentTime = 0
  /\ isTimeManuallyControlled = FALSE
  /\ tickCall = Null

\* no bookmark, no alert issued
AlertInit ==
  /\ bookmarks = {}
  /\ notifiedEventsRef = << >>
  /\ notifications = << >>

\* no marker
MarkerInit ==
  /\ markerInstances = {}
  /\ mapMarkers = {}

\* the hooks as they are before the first render
HooksIdle == TimeInit /\ AlertInit /\ MarkerInit

\* no function of lib/ is being called
HookInit ==
  /\ libCall = Null
  /\ HooksIdle

\* the classifier has not run, neither the caster nor the merge is called
NonFetchShadeInit ==
  /\ sunPosition = Null
  /\ buildingsFromStore = << >>
  /\ allPlacesFromStore = << >>
  /\ processedPlaces = << >>
  /\ coreLogic = "MapComponent.tsx"
  /\ lastPass = Null
  /\ effectError = FALSE
  /\ casterCall = Null
  /\ mergeCall = Null

\* the classifier has not run, no pure function has been called
NonFetchInit == NonFetchShadeInit /\ HookInit

\* the store as appStore.ts creates it
StoreInit ==
  /\ mapRef = FALSE
  /\ mapCenter = DEFAULT_MAP_CENTER
  /\ mapZoom = DEFAULT_MAP_ZOOM
  /\ mapBoundsForQuery = Null
  /\ hasMapMoved = FALSE
  /\ userCoordinates = Null
  /\ allFetchedPlaces = << >>
  /\ allFetchedBuildings = << >>
  /\ fetchedBoundsHistory = << >>
  /\ queryCache = {}

Init == StoreInit /\ NonFetchInit

\* ---- store actions (store/appStore.ts) ----

Range(f) == { f[i] : i \in DOMAIN f }

\* the id of a Place or Building record <<id, revision>>; the revision stands
\* for everything else the record holds (name, tags, center, geometry)
idOf(item) == item[1]

\* mergeById without the filter on existing ids
mergeByIdNoFilter(pool, newItems) == pool \o newItems

\* the "deduplicate then append" of addFetchedOsmData, for one of the pools
mergeById(pool, newItems) ==
  LET existingIds == { idOf(pool[i]) : i \in DOMAIN pool }
      uniqueNew == SelectSeq(newItems, LAMBDA p : idOf(p) \notin existingIds)
  IN  pool \o uniqueNew

\* addFetchedOsmData that leaves the fetched box out of the history
addFetchedOsmDataForgetsBbox(newPlaces, newBuildings, fetchedBbox) ==
  /\ allFetchedPlaces' = mergeById(allFetchedPlaces, newPlaces)
  /\ allFetchedBuildings' = mergeById(allFetchedBuildings, newBuildings)
  /\ fetchedBoundsHistory' = fetchedBoundsHistory

\* addFetchedOsmData that replaces the pools by the new items
addFetchedOsmDataReplaces(newPlaces, newBuildings, fetchedBbox) ==
  /\ allFetchedPlaces' = newPlaces
  /\ allFetchedBuildings' = newBuildings
  /\ fetchedBoundsHistory' = Append(fetchedBoundsHistory, fetchedBbox)

addFetchedOsmData(newPlaces, newBuildings, fetchedBbox) ==
  /\ allFetchedPlaces' = mergeById(allFetchedPlaces, newPlaces)
  /\ allFetchedBuildings' = mergeById(allFetchedBuildings, newBuildings)
  /\ fetchedBoundsHistory' = Append(fetchedBoundsHistory, fetchedBbox)

\* clearAllOsmData that empties the history and leaves the pools
clearAllOsmDataHistoryOnly ==
  /\ fetchedBoundsHistory' = << >>
  /\ UNCHANGED << allFetchedPlaces, allFetchedBuildings >>

clearAllOsmData ==
  /\ allFetchedPlaces' = << >>
  /\ allFetchedBuildings' = << >>
  /\ fetchedBoundsHistory' = << >>

\* setMapCenterAndZoom that clears the accumulated data on every view change
setMapCenterAndZoomAlwaysClears(newObservedCenter, newObservedZoom, fromUserInteraction, mapGetBounds) ==
  LET viewActuallyChanged ==
        mapCenter # newObservedCenter \/ mapZoom # newObservedZoom
      calculatedMapBoundsForQuery ==
        IF mapRef /\ newObservedZoom >= MIN_ZOOM_LEVEL_FOR_FETCH THEN mapGetBounds ELSE Null
  IN  IF viewActuallyChanged
      THEN /\ mapCenter' = newObservedCenter
           /\ mapZoom' = newObservedZoom
           /\ mapBoundsForQuery' = calculatedMapBoundsForQuery
           /\ hasMapMoved' = (IF fromUserInteraction THEN TRUE ELSE hasMapMoved)
           /\ clearAllOsmData
           /\ UNCHANGED << mapRef, userCoordinates >>
      ELSE UNCHANGED storeVars

\* setMapCenterAndZoom that never sets shouldClearAllData
setMapCenterAndZoomKeepsData(newObservedCenter, newObservedZoom, fromUserInteraction, mapGetBounds) ==
  LET viewActuallyChanged ==
        mapCenter # newObservedCenter \/ mapZoom # newObservedZoom
      calculatedMapBoundsForQuery ==
        IF mapRef /\ newObservedZoom >= MIN_ZOOM_LEVEL_FOR_FETCH THEN mapGetBounds ELSE Null
  IN  IF viewActuallyChanged
      THEN /\ mapCenter' = newObservedCenter
           /\ mapZoom' = newObservedZoom
           /\ mapBoundsForQuery' = calculatedMapBoundsForQuery
           /\ hasMapMoved' = (IF fromUserInteraction THEN TRUE ELSE hasMapMoved)
           /\ UNCHANGED << allFetchedPlaces, allFetchedBuildings, fetchedBoundsHistory >>
           /\ UNCHANGED << mapRef, userCoordinates >>
      ELSE UNCHANGED storeVars

\* setMapCenterAndZoom; mapGetBounds is what mapRef.getBounds() returns
setMapCenterAndZoom(newObservedCenter, newObservedZoom, fromUserInteraction, mapGetBounds) ==
  LET viewActuallyChanged ==
        mapCenter # newObservedCenter \/ mapZoom # newObservedZoom
      shouldClearAllData == mapRef /\ newObservedZoom < MIN_ZOOM_LEVEL_FOR_FETCH
      calculatedMapBoundsForQuery ==
        IF mapRef /\ newObservedZoom >= MIN_ZOOM_LEVEL_FOR_FETCH THEN mapGetBounds ELSE Null
  IN  IF viewActuallyChanged
      THEN /\ mapCenter' = newObservedCenter
           /\ mapZoom' = newObservedZoom
           /\ mapBoundsForQuery' = calculatedMapBoundsForQuery
           /\ hasMapMoved' = (IF fromUserInteraction THEN TRUE ELSE hasMapMoved)
           /\ IF shouldClearAllData
              THEN clearAllOsmData
              ELSE UNCHANGED << allFetchedPlaces, allFetchedBuildings, fetchedBoundsHistory >>
           /\ UNCHANGED << mapRef, userCoordinates >>
      ELSE UNCHANGED storeVars

setMapBoundsForQuery(bounds) ==
  /\ clearAllOsmData
  /\ mapBoundsForQuery' = bounds
  /\ hasMapMoved' = FALSE

\* Nominatim boundingbox [minlat, maxlat, minlon, maxlon] of a location
NominatimBoxes == { << b[1], b[3], b[2], b[4] >> : b \in Boxes }

\* lat/lon of a geocoding result: the centre of its boundingbox
locationCenter(boundingbox) ==
  << boundingbox[1] + boundingbox[2], boundingbox[3] + boundingbox[4] >>

\* turf.bbox(turf.buffer(centerPoint, 2 km)) as [S, W, N, E]
gpsBounds(newCenter) ==
  << (newCenter[1] - 1) \div 2, (newCenter[2] - 1) \div 2,
     (newCenter[1] + 1) \div 2, (newCenter[2] + 1) \div 2 >>

\* processAndSetNewLocation for locationData # null; boundingbox is Null when
\* locationData has none
processAndSetNewLocation(newCenter, boundingbox, isUserGps) ==
  LET newBounds ==
        IF boundingbox # Null
        THEN << boundingbox[1], boundingbox[3], boundingbox[2], boundingbox[4] >>
        ELSE IF isUserGps THEN gpsBounds(newCenter) ELSE Null
      newZoom ==
        IF boundingbox # Null THEN SEARCH_ZOOM
        ELSE IF isUserGps THEN GPS_ZOOM ELSE DEFAULT_MAP_ZOOM
  IN  /\ clearAllOsmData
      /\ mapCenter' = newCenter
      /\ mapZoom' = newZoom
      /\ mapBoundsForQuery' = newBounds
      /\ hasMapMoved' = FALSE

\* ---- the query of app/page.tsx (useQuery) ----

queryEnabled == mapBoundsForQuery # Null /\ mapZoom >= MIN_FETCH_ZOOM_LEVEL

\* the query of the current queryKey [mapBoundsForQuery, fetchedBoundsHistory]
currentQuery ==
  { q \in queryCache : q.bounds = mapBoundsForQuery /\ q.hist = fetchedBoundsHistory }

\* the page renders and runs its effects to completion after every change:
\* a query to start, or a result to merge, is handled before the next event
mergePending ==
  \E q \in currentQuery : q.status = "success" /\ q.fetchedBbox # Null

\* startPending that does not look for a query of the key in the cache
startPendingEveryRender == queryEnabled

startPending == queryEnabled /\ currentQuery = {}

renderDone == ~mergePending /\ ~startPending

\* the record lists a map-data response can carry, over the ids S and the
\* revisions R: the parser emits one record per Overpass element, so an id
\* occurs at most once in one response
RECURSIVE recordLists(_, _)
recordLists(S, R) ==
  IF S = {} THEN { << >> }
  ELSE LET rest == UNION { recordLists(S \ {x}, R) : x \in S }
       IN  rest \cup UNION { { << << x, r >> >> \o t : t \in recordLists(S \ {x}, R), r \in R }
                                : x \in S }

\* the responses of one session, in which the map data does not change: every
\* element is at its first revision
idLists(S) == recordLists(S, {1})

\* ---- events ----

\* MapComponent creates the map at the stored view and stores the instance;
\* its setMapCenterAndZoom call observes the stored view
MapInit ==
  /\ ~mapRef
  /\ renderDone
  /\ mapRef' = TRUE
  /\ UNCHANGED << mapCenter, mapZoom, mapBoundsForQuery, hasMapMoved,
                  userCoordinates, allFetchedPlaces, allFetchedBuildings,
                  fetchedBoundsHistory, queryCache >>
  /\ UNCHANGED nonFetchVars

\* moveend / zoomend (debounced): processMapViewChange
MapViewChange(box, zoom) ==
  /\ mapRef
  /\ renderDone
  /\ setMapCenterAndZoom(CenterOf(box), zoom, TRUE, box)
  /\ UNCHANGED queryCache
  /\ UNCHANGED nonFetchVars

\* the "Search This Area" button: handleSearchThisArea; box is
\* mapRef.getBounds() of the map whose view the store has observed
SearchThisArea(box) ==
  /\ hasMapMoved /\ mapZoom >= MIN_FETCH_ZOOM_LEVEL
  /\ mapRef
  /\ CenterOf(box) = mapCenter
  /\ renderDone
  /\ setMapBoundsForQuery(box)
  /\ UNCHANGED << mapRef, mapCenter, mapZoom, userCoordinates, queryCache >>
  /\ UNCHANGED nonFetchVars

\* setSelectedLocation(location), location # null: a search suggestion is chosen
SelectLocation(location) ==
  /\ renderDone
  /\ processAndSetNewLocation(locationCenter(location), location, FALSE)
  /\ UNCHANGED << mapRef, userCoordinates, queryCache >>
  /\ UNCHANGED nonFetchVars

\* setSelectedLocation(null): the search is cleared
ClearLocation ==
  /\ renderDone
  /\ IF userCoordinates # Null
     THEN processAndSetNewLocation(userCoordinates, Null, TRUE)
     ELSE /\ clearAllOsmData
          /\ mapCenter' = DEFAULT_MAP_CENTER
          /\ mapZoom' = DEFAULT_MAP_ZOOM
          /\ mapBoundsForQuery' = Null
          /\ UNCHANGED hasMapMoved
  /\ UNCHANGED << mapRef, userCoordinates, queryCache >>
  /\ UNCHANGED nonFetchVars

\* requestUserLocation, position obtained: setUserCoordinates then
\* processAndSetNewLocation(..., true)
UserLocated(coords) ==
  /\ renderDone
  /\ userCoordinates' = coords
  /\ processAndSetNewLocation(coords, Null, TRUE)
  /\ UNCHANGED << mapRef, queryCache >>
  /\ UNCHANGED nonFetchVars

\* requestUserLocation, no position: setUserCoordinates(null)
UserLocationFailed ==
  /\ renderDone
  /\ userCoordinates # Null
  /\ userCoordinates' = Null
  /\ UNCHANGED << mapRef, mapCenter, mapZoom, mapBoundsForQuery, hasMapMoved,
                  allFetchedPlaces, allFetchedBuildings,
                  fetchedBoundsHistory, queryCache >>
  /\ UNCHANGED nonFetchVars

\* handleGoToPlace of the bookmark list, for a place of the current viewport
GoToPlace(center) ==
  /\ renderDone
  /\ mapBoundsForQuery # Null
  /\ allFetchedPlaces # << >>
  /\ isCoordinateInBbox(center, mapBoundsForQuery)
  /\ processAndSetNewLocation(center, Null, FALSE)
  /\ UNCHANGED << mapRef, userCoordinates, queryCache >>
  /\ UNCHANGED nonFetchVars

\* useQuery starts the query of a new key: queryFn runs getUnfetchedAreas and
\* either resolves without a request (nothing uncovered) or requests the
\* target bounding box
StartQuery ==
  /\ startPending
  /\ Cardinality(queryCache \ currentQuery) < MaxCache
  /\ LET targetBbox == targetBboxOf(mapBoundsForQuery, fetchedBoundsHistory)
     IN  queryCache' = queryCache \cup
           { [ bounds |-> mapBoundsForQuery, hist |-> fetchedBoundsHistory,
               status |-> IF targetBbox = Null THEN "success" ELSE "pending",
               fetchedBbox |-> targetBbox, places |-> << >>, buildings |-> << >> ] }
  /\ UNCHANGED storeVars
  /\ UNCHANGED nonFetchVars

\* the response of /api/osm arrives with response.ok: the query of its key
\* gets the data; the page sees it, and its effect on [isSuccess, newOsmData]
\* merges it, only when that key is the current queryKey
FetchSucceeds(q, places, buildings) ==
  /\ q \in queryCache
  /\ q.status = "pending"
  /\ queryCache' = (queryCache \ {q}) \cup
       { [ q EXCEPT !.status = "success", !.places = places, !.buildings = buildings ] }
  /\ IF q \in currentQuery
     THEN addFetchedOsmData(places, buildings, q.fetchedBbox)
     ELSE UNCHANGED << allFetchedPlaces, allFetchedBuildings, fetchedBoundsHistory >>
  /\ UNCHANGED << mapRef, mapCenter, mapZoom, mapBoundsForQuery, hasMapMoved, userCoordinates >>
  /\ UNCHANGED nonFetchVars

\* FetchFails that records the target box as fetched all the same
FetchFailsMarksFetched(q) ==
  /\ q \in queryCache
  /\ q.status = "pending"
  /\ queryCache' = (queryCache \ {q}) \cup { [ q EXCEPT !.status = "error" ] }
  /\ fetchedBoundsHistory' = Append(fetchedBoundsHistory, q.fetchedBbox)
  /\ UNCHANGED << mapRef, mapCenter, mapZoom, mapBoundsForQuery, hasMapMoved,
                  userCoordinates, allFetchedPlaces, allFetchedBuildings >>
  /\ UNCHANGED nonFetchVars

\* network error or non-OK response: queryFn throws
FetchFails(q) ==
  /\ q \in queryCache
  /\ q.status = "pending"
  /\ queryCache' = (queryCache \ {q}) \cup { [ q EXCEPT !.status = "error" ] }
  /\ UNCHANGED storeVars
  /\ UNCHANGED nonFetchVars

\* the queryKey has come back to a query that holds data: the effect on
\* [isSuccess, newOsmData] merges the cached data
MergeEffect ==
  /\ \E q \in currentQuery :
       /\ q.status = "success"
       /\ q.fetchedBbox # Null
       /\ addFetchedOsmData(q.places, q.buildings, q.fetchedBbox)
  /\ UNCHANGED << mapRef, mapCenter, mapZoom, mapBoundsForQuery, hasMapMoved,
                  userCoordinates, queryCache >>
  /\ UNCHANGED nonFetchVars

\* a settled query leaves the cache: an unobserved one is garbage-collected,
\* a failed one is dropped to be fetched again (refetch on focus or remount)
CacheRemove(q) ==
  /\ q \in queryCache
  /\ q.status # "pending"
  /\ q \notin currentQuery \/ q.status = "error"
  /\ queryCache' = queryCache \ {q}
  /\ UNCHANGED storeVars
  /\ UNCHANGED nonFetchVars

UserEvent ==
  \/ MapInit
  \/ \E box \in Boxes, zoom \in ObservedZooms : MapViewChange(box, zoom)
  \/ \E box \in Boxes : SearchThisArea(box)
  \/ \E location \in NominatimBoxes : SelectLocation(location)
  \/ ClearLocation
  \/ UserLocated(GpsFix)
  \/ UserLocationFailed
  \/ \E box \in UnitBoxes : GoToPlace(CenterOf(box))

NextNoFail ==
  \/ UserEvent
  \/ StartQuery
  \/ \E q \in queryCache, places \in idLists(PlaceIds), buildings \in idLists(BuildingIds) :
       FetchSucceeds(q, places, buildings)
  \/ MergeEffect
  \/ \E q \in queryCache : CacheRemove(q)

Next ==
  \/ NextNoFail
  \/ \E q \in queryCache : FetchFails(q)

Spec == Init /\ [][Next]_vars

\* every map-data request succeeds; the page always renders (the query of a
\* new key starts, delivered data is merged), every request is answered, and
\* unobserved queries are collected
LiveSpec ==
  /\ Init /\ [][NextNoFail]_vars
  /\ WF_vars(StartQuery)
  /\ WF_vars(MergeEffect)
  /\ WF_vars(\E q \in queryCache, places \in idLists(PlaceIds), buildings \in idLists(BuildingIds) :
               FetchSucceeds(q, places, buildings))
  /\ WF_vars(\E q \in queryCache : CacheRemove(q))

\* ---- the merge of two results into one pool ----

\* the parsed responses of fetches made at different times: an element can
\* come back at another revision (tags or geometry edited meanwhile)
osmResults ==
  [ places : recordLists(PlaceIds, 1..NumRevisions),
    buildings : recordLists(BuildingIds, 1..NumRevisions) ]

\* the store as created, and the two results R1, R2 that addFetchedOsmData
\* is going to be called with
MergeInit ==
  /\ StoreInit
  /\ sunPosition = Null /\ buildingsFromStore = << >> /\ allPlacesFromStore = << >>
  /\ processedPlaces = << >> /\ coreLogic = "MapComponent.tsx" /\ lastPass = Null
  /\ effectError = FALSE
  /\ HookInit
  /\ casterCall = Null
  /\ \E R1 \in osmResults, R2 \in osmResults :
       mergeCall = [ results |-> << R1, R2 >>, order |-> << >> ]

\* addFetchedOsmData(R_i.places, R_i.buildings, bbox)
MergeResult(i) ==
  /\ mergeCall # Null
  /\ Len(mergeCall.order) < MaxMerges
  /\ addFetchedOsmData(mergeCall.results[i].places, mergeCall.results[i].buildings,
                       << 0, i - 1, 1, i >>)
  /\ mergeCall' = [ mergeCall EXCEPT !.order = Append(@, i) ]
  /\ UNCHANGED << mapRef, mapCenter, mapZoom, mapBoundsForQuery, hasMapMoved,
                  userCoordinates, queryCache >>
  /\ UNCHANGED << shadeVars, casterCall, hookVars >>

MergeNext == \E i \in 1..2 : MergeResult(i)

MergeSpec == MergeInit /\ [][MergeNext]_vars

\* ---- the shadow caster ----

\* Coordinates are pairs << x, y >> in metres along and across one street that
\* runs south to north; angles are in milliradians.

DEFAULT_BUILDING_HEIGHT == 10
MIN_SUN_ALTITUDE_RAD == 10
\* Math.PI
PI_MRAD == 3142

SunAltitudes == { -100, 0, 5, 10, 11, 464, 785, 1570 }
SunAzimuths == { 0, PI_MRAD }
SunPositions == [ azimuth : SunAzimuths, altitude : SunAltitudes ]

Has(object, field) == field \in DOMAIN object

\* the closed ring of a rectangular footprint from x = lo to x = hi
rectangleRing(lo, hi) ==
  << << lo, 0 >>, << hi, 0 >>, << hi, 5 >>, << lo, 5 >>, << lo, 0 >> >>

\* Math.tan(altitude) > 0
tanPositive(altitude) == 0 < altitude /\ altitude < 1571

\* 1000 / Math.tan(altitude), rounded down
cotMilli(altitude) ==
  CASE altitude = 5 -> 199998
    [] altitude = 10 -> 99996
    [] altitude = 11 -> 90905
    [] altitude = 464 -> 1998
    [] altitude = 785 -> 1000
    [] OTHER -> 0

\* the bearing of the shadow, degrees from north
shadowBearingOf(azimuth) ==
  LET sunAzimuthDegreesFromNorth == ((azimuth * 180) \div PI_MRAD + 180) % 360
  IN  (sunAzimuthDegreesFromNorth + 180) % 360

\* turf.destination(point, distance, bearing) along the street
destination(vertexCoords, distance, bearing) ==
  << vertexCoords[1] + (IF bearing = 0 THEN distance
                        ELSE IF bearing = 180 THEN 0 - distance ELSE 0),
     vertexCoords[2] >>

Min(S) == CHOOSE x \in S : \A y \in S : x <= y
Max(S) == CHOOSE x \in S : \A y \in S : y <= x

\* turf.convex of the points: the rectangle from the lowest to the highest x
convex(points) ==
  LET xs == { points[i][1] : i \in DOMAIN points }
  IN  << Min(xs), Max(xs) >>

NoShadow == [ kind |-> "null", hull |-> << >> ]
ThrowsTypeError == [ kind |-> "throw", hull |-> << >> ]
ShadowOf(hull) == [ kind |-> "shadow", hull |-> hull ]

heightOrDefault(building) ==
  IF Has(building, "height") /\ building.height # 0
  THEN building.height ELSE DEFAULT_BUILDING_HEIGHT

\* turf.destination throws on this vertex: the model marks such a vertex by
\* an across-street coordinate beyond 90
destinationThrows(vertexCoords) == vertexCoords[2] > 90

\* the projection of the vertices turf.destination accepts, in order
projected(footprintVertices, shadowLength, sun) ==
  LET shadowBearing == shadowBearingOf(sun.azimuth)
      accepted == SelectSeq(footprintVertices, LAMBDA v : ~ destinationThrows(v))
  IN  [ i \in DOMAIN accepted |-> destination(accepted[i], shadowLength, shadowBearing) ]

\* castFootprint that builds the hull from whatever vertices were projected
castFootprintPartial(footprintVertices, shadowLength, sun) ==
  IF \E i \in DOMAIN footprintVertices : Len(footprintVertices[i]) < 2
  THEN NoShadow
  ELSE LET shadowPoints == projected(footprintVertices, shadowLength, sun)
           validPointsForHull == footprintVertices \o shadowPoints
       IN  IF Len(shadowPoints) = 0 \/ Len(validPointsForHull) < 3
           THEN NoShadow
           ELSE ShadowOf(convex(validPointsForHull))

\* the steps of calculateShadowPolygon after the footprint is selected
castFootprint(footprintVertices, shadowLength, sun) ==
  IF \E i \in DOMAIN footprintVertices : Len(footprintVertices[i]) < 2
  THEN NoShadow
  ELSE LET shadowPoints == projected(footprintVertices, shadowLength, sun)
           validPointsForHull == footprintVertices \o shadowPoints
       IN  IF Len(shadowPoints) # Len(footprintVertices) \/ Len(shadowPoints) = 0
           THEN NoShadow
           ELSE IF Len(validPointsForHull) < 3
           THEN NoShadow
           ELSE ShadowOf(convex(validPointsForHull))

\* calculateShadowPolygon with minAltitude as the altitude rejected
castAbove(minAltitude, building, sun) ==
  IF ~ Has(building, "geometry") THEN NoShadow
  ELSE IF sun.altitude <= minAltitude THEN NoShadow
  ELSE LET buildingHeight == heightOrDefault(building)
           geometry == building.geometry
       IN  IF buildingHeight <= 0 THEN NoShadow
           ELSE IF ~ tanPositive(sun.altitude) THEN NoShadow
           ELSE LET shadowLengthMm == buildingHeight * cotMilli(sun.altitude)
                    shadowLength == shadowLengthMm \div 1000
                IN  IF shadowLengthMm <= 10 THEN NoShadow
                    ELSE IF geometry.type = "Polygon"
                    THEN IF ~ Has(geometry, "coordinates")
                         THEN ThrowsTypeError
                         ELSE IF Len(geometry.coordinates) = 0
                                 \/ Len(geometry.coordinates[1]) < 4
                         THEN NoShadow
                         ELSE castFootprint(geometry.coordinates[1], shadowLength, sun)
                    ELSE IF geometry.type = "MultiPolygon"
                    THEN IF ~ Has(geometry, "coordinates")
                         THEN ThrowsTypeError
                         ELSE IF Len(geometry.coordinates) = 0
                                 \/ Len(geometry.coordinates[1]) = 0
                                 \/ Len(geometry.coordinates[1][1]) < 4
                         THEN NoShadow
                         ELSE castFootprint(geometry.coordinates[1][1], shadowLength, sun)
                    ELSE NoShadow

\* calculateShadowPolygon that rejects the sun at or below the horizon only
calculateShadowPolygonHorizonOnly(building, sun) == castAbove(0, building, sun)

calculateShadowPolygon(building, sun) == castAbove(MIN_SUN_ALTITUDE_RAD, building, sun)

\* the geometries a Building value can carry (geometry: any)
AnyGeometries ==
  { [ type |-> "Polygon" ],
    [ type |-> "Polygon", coordinates |-> << >> ],
    [ type |-> "Polygon", coordinates |-> << << << 0, 0 >>, << 10, 0 >>, << 0, 0 >> >> >> ],
    [ type |-> "Polygon", coordinates |-> << << << 0, 0 >>, << 10 >>, << 10, 5 >>, << 0, 0 >> >> >> ],
    [ type |-> "Polygon", coordinates |-> << rectangleRing(0, 10) >> ],
    [ type |-> "Polygon",
      coordinates |-> << << << 0, 0 >>, << 10, 0 >>, << 10, 95 >>, << 0, 5 >>, << 0, 0 >> >> >> ],
    [ type |-> "MultiPolygon" ],
    [ type |-> "MultiPolygon", coordinates |-> << << >> >> ],
    [ type |-> "MultiPolygon", coordinates |-> << << rectangleRing(10, 20) >>, << rectangleRing(30, 40) >> >> ],
    [ type |-> "Point", coordinates |-> << 10, 0 >> ] }

BuildingHeights == { -5, 0, 20 }

AnyBuildings ==
  { [ id |-> 1 ] }
    \cup { [ id |-> 1, geometry |-> g ] : g \in AnyGeometries }
    \cup { [ id |-> 1, geometry |-> g, height |-> h ] : g \in AnyGeometries, h \in BuildingHeights }
    \cup { [ id |-> 1, height |-> h ] : h \in BuildingHeights }

\* one call of the caster: a building and a sun position
CasterInit ==
  /\ StoreInit
  /\ sunPosition = Null /\ buildingsFromStore = << >> /\ allPlacesFromStore = << >>
  /\ processedPlaces = << >> /\ coreLogic = "MapComponent.tsx" /\ lastPass = Null
  /\ effectError = FALSE
  /\ HookInit
  /\ mergeCall = Null
  /\ \E building \in AnyBuildings, sun \in SunPositions :
       casterCall = [ building |-> building, sunPosition |-> sun,
                      returned |-> FALSE, result |-> NoShadow ]

Cast ==
  /\ casterCall # Null
  /\ ~ casterCall.returned
  /\ casterCall' = [ casterCall EXCEPT
                       !.returned = TRUE,
                       !.result = calculateShadowPolygon(casterCall.building,
                                                         casterCall.sunPosition) ]
  /\ UNCHANGED << fetchVars, shadeVars, mergeCall, hookVars >>

CasterSpec == CasterInit /\ [][Cast]_vars

\* ---- the sun/shade classification of MapComponent ----

MIN_ZOOM_FOR_SHADOWS == 16

\* turf.booleanPointInPolygon: the boundary is inside
booleanPointInPolygon(point, hull) == hull[1] <= point[1] /\ point[1] <= hull[2]

\* turf.booleanPointInPolygon throws on a position or a ring it cannot read
booleanPointInPolygonThrows(point, hull) == Len(point) < 2 \/ Len(hull) < 2

\* a shadow polygon as a GeoJSON feature
polygonFeature(hull) == [ geometry |-> [ type |-> "Polygon", coordinates |-> hull ] ]

\* the features the loop of isLocationInSun hands to turf
checkedShadows(allCalculatedShadows) ==
  SelectSeq(allCalculatedShadows,
            LAMBDA shadowFeature :
              /\ shadowFeature # Null
              /\ Has(shadowFeature, "geometry")
              /\ shadowFeature.geometry.type = "Polygon"
              /\ Has(shadowFeature.geometry, "coordinates"))

\* isLocationInSun that gives turf the point as [lat, lng]
isLocationInSunLatLng(location, allCalculatedShadows) ==
  IF location = Null THEN TRUE
  ELSE IF Len(allCalculatedShadows) = 0 THEN TRUE
  ELSE LET shadows == checkedShadows(allCalculatedShadows)
           point == << location[2], location[1] >>
       IN  ~ \E i \in DOMAIN shadows :
               /\ ~ booleanPointInPolygonThrows(point, shadows[i].geometry.coordinates)
               /\ booleanPointInPolygon(point, shadows[i].geometry.coordinates)

\* the boolean isLocationInSun returns: an exception of turf is caught and
\* the feature counts as not covering the point
isLocationInSun(location, allCalculatedShadows) ==
  IF location = Null THEN TRUE
  ELSE IF Len(allCalculatedShadows) = 0 THEN TRUE
  ELSE LET shadows == checkedShadows(allCalculatedShadows)
       IN  ~ \E i \in DOMAIN shadows :
               /\ ~ booleanPointInPolygonThrows(location, shadows[i].geometry.coordinates)
               /\ booleanPointInPolygon(location, shadows[i].geometry.coordinates)

Returned(value) == [ kind |-> "returned", value |-> value ]
Thrown == [ kind |-> "throw", value |-> Null ]

\* a call of isLocationInSun whose loop has no try around turf: the first
\* feature that covers the point or makes turf throw ends the call
isLocationInSunUncaught(location, allCalculatedShadows) ==
  IF location = Null THEN Returned(TRUE)
  ELSE IF Len(allCalculatedShadows) = 0 THEN Returned(TRUE)
  ELSE LET shadows == checkedShadows(allCalculatedShadows)
           throws(i) == booleanPointInPolygonThrows(location, shadows[i].geometry.coordinates)
           ending == { i \in DOMAIN shadows :
                         throws(i) \/ booleanPointInPolygon(location, shadows[i].geometry.coordinates) }
       IN  IF ending = {} THEN Returned(TRUE)
           ELSE IF throws(Min(ending)) THEN Thrown ELSE Returned(FALSE)

\* how a call of isLocationInSun ends
isLocationInSunCall(location, allCalculatedShadows) ==
  Returned(isLocationInSun(location, allCalculatedShadows))

RECURSIVE SumX(_, _)
SumX(ring, n) == IF n = 0 THEN 0 ELSE ring[n][1] + SumX(ring, n - 1)

\* turf.centroid of a polygon: the mean of the vertices of its ring, the
\* closing vertex left out
centroid(ring) == << SumX(ring, Len(ring) - 1) \div (Len(ring) - 1), ring[1][2] >>

\* turf.polygon(coordinates) throws: a ring of fewer than four positions, or
\* one whose first and last positions differ
turfPolygonThrows(coordinates) ==
  \E r \in DOMAIN coordinates :
    Len(coordinates[r]) < 4 \/ coordinates[r][1] # coordinates[r][Len(coordinates[r])]

\* getRelevantShadowPointForPlace that never looks at the footprint
getRelevantShadowPointForPlaceCenter(place) == place.center

getRelevantShadowPointForPlace(place) ==
  IF /\ Has(place, "isBuildingOutline") /\ place.isBuildingOutline
     /\ Has(place, "geometry")
     /\ place.geometry.type = "Polygon"
     /\ Has(place.geometry, "coordinates")
     /\ Len(place.geometry.coordinates) > 0
  THEN IF turfPolygonThrows(place.geometry.coordinates)
       THEN place.center
       ELSE centroid(place.geometry.coordinates[1])
  ELSE place.center

\* the places of the map data: amenities mapped as a node, and one mapped as
\* the outline of its own building
PlaceShapes ==
  { [ center |-> << 0, 0 >>, isBuildingOutline |-> FALSE ],
    [ center |-> << 0, 0 >>, isBuildingOutline |-> TRUE,
      geometry |-> [ type |-> "Polygon", coordinates |-> << rectangleRing(20, 40) >> ] ] }

\* the lists of places in the store: the id of a place is its position
PlaceLists ==
  { [ i \in DOMAIN l |-> [ id |-> i ] @@ l[i] ] :
      l \in UNION { [ 1..n -> PlaceShapes ] : n \in 0..NumPlaces } }

\* the buildings parseOverpassResponse builds: a polygon turf.polygon has
\* accepted, and the height the tags give
ParsedBuildings ==
  { [ geometry |-> [ type |-> "Polygon", coordinates |-> << rectangleRing(10, 20) >> ],
      height |-> h ] : h \in { -5, 20 } }

BuildingLists ==
  { [ i \in DOMAIN l |-> [ id |-> i ] @@ l[i] ] :
      l \in UNION { [ 1..n -> ParsedBuildings ] : n \in 0..NumBuildings } }

\* what SunCalc.getPosition gives over the day
SunCalcAltitudes == { -100, 0, 5, 785 }
SunCalcPositions == [ azimuth : { 0 }, altitude : SunCalcAltitudes ]

ShadeZooms == { MIN_ZOOM_FOR_SHADOWS - 1, MIN_ZOOM_FOR_SHADOWS }

\* the two versions of the effect for the core logic
CoreLogics == { "MapComponent.tsx", "part_002" }

\* the store as created, with the places a fetch has delivered
ShadeInit ==
  /\ StoreInit
  /\ sunPosition = Null
  /\ buildingsFromStore = << >>
  /\ allPlacesFromStore \in PlaceLists
  /\ processedPlaces = << >>
  /\ coreLogic \in CoreLogics
  /\ lastPass = Null
  /\ effectError = FALSE
  /\ HookInit
  /\ casterCall = Null
  /\ mergeCall = Null

\* the effect of useSunPosition on [currentTime, lat, lng]
SunMoves(position) ==
  /\ sunPosition' = IF position.altitude > 0 THEN position ELSE Null
  /\ UNCHANGED << fetchVars, buildingsFromStore, allPlacesFromStore, processedPlaces,
                  coreLogic, lastPass, effectError, casterCall, mergeCall, hookVars >>

\* the store's building pool changes
BuildingsChange(buildings) ==
  /\ buildingsFromStore' = buildings
  /\ UNCHANGED << fetchVars, sunPosition, allPlacesFromStore, processedPlaces,
                  coreLogic, lastPass, effectError, casterCall, mergeCall, hookVars >>

\* the store's places change: setPlaces
PlacesChange(places) ==
  /\ allPlacesFromStore' = places
  /\ UNCHANGED << fetchVars, sunPosition, buildingsFromStore, processedPlaces,
                  coreLogic, lastPass, effectError, casterCall, mergeCall, hookVars >>

\* zoomend on the map: processMapViewChange
ZoomEnd(box, zoom) ==
  /\ mapRef
  /\ setMapCenterAndZoom(CenterOf(box), zoom, TRUE, box)
  /\ UNCHANGED queryCache
  /\ UNCHANGED nonFetchVars

\* the test of the effect that skips the shadow calculation
skipsShadows ==
  IF coreLogic = "MapComponent.tsx"
  THEN sunPosition = Null \/ Len(buildingsFromStore) = 0
  ELSE \/ sunPosition = Null
       \/ sunPosition.altitude <= MIN_SUN_ALTITUDE_RAD
       \/ Len(buildingsFromStore) = 0
       \/ mapZoom < MIN_ZOOM_FOR_SHADOWS

\* targetIsInSun that takes the absence of buildings for shade
targetIsInSunWithBuildings == sunPosition # Null /\ Len(buildingsFromStore) > 0

\* targetIsInSun that takes the absence of buildings for sunshine
targetIsInSunWithoutBuildings == Len(buildingsFromStore) = 0

targetIsInSun ==
  IF coreLogic = "MapComponent.tsx"
  THEN sunPosition # Null
  ELSE sunPosition # Null /\ sunPosition.altitude > MIN_SUN_ALTITUDE_RAD

\* what calculateShadowPolygon gives for each building of the store
castResults ==
  [ i \in DOMAIN buildingsFromStore |->
      calculateShadowPolygon(buildingsFromStore[i], sunPosition) ]

currentShadowFeatures ==
  LET cast == SelectSeq(castResults, LAMBDA r : r.kind = "shadow")
  IN  [ i \in DOMAIN cast |-> polygonFeature(cast[i].hull) ]

\* the place records the effect hands to setProcessedPlaces
newProcessed ==
  [ i \in DOMAIN allPlacesFromStore |->
      [ id |-> allPlacesFromStore[i].id,
        isInSun |-> targetIsInSun,
        relevantShadowPoint |-> getRelevantShadowPointForPlace(allPlacesFromStore[i]) ] ]

updatedPlaces ==
  [ i \in DOMAIN allPlacesFromStore |->
      LET relevantPoint == getRelevantShadowPointForPlace(allPlacesFromStore[i])
      IN  [ id |-> allPlacesFromStore[i].id,
            isInSun |-> isLocationInSun(relevantPoint, currentShadowFeatures),
            relevantShadowPoint |-> relevantPoint ] ]

\* the inputs of a pass
passInputs ==
  [ places |-> allPlacesFromStore, buildings |-> buildingsFromStore,
    sunPosition |-> sunPosition, mapZoom |-> mapZoom ]

\* the core logic that leaves the records alone when no building is loaded
\* and the sun is up
setProcessedPlacesKeepsWithoutBuildings(places) ==
  processedPlaces' =
    IF sunPosition # Null /\ Len(buildingsFromStore) = 0 THEN processedPlaces ELSE places

\* setProcessedPlaces that overwrites the records place by place and leaves
\* the records beyond the new list where they are
setProcessedPlacesInPlace(places) ==
  processedPlaces' =
    places \o SubSeq(processedPlaces, Len(places) + 1, Len(processedPlaces))

setProcessedPlaces(places) == processedPlaces' = places

\* what lastPass holds after this pass: the first pass remembered, and after
\* it whether a pass on other inputs ("other") and then a pass on the
\* remembered inputs ("again") has run
lastPassAfter(remember) ==
  IF lastPass = Null
  THEN IF remember
       THEN [ inputs |-> passInputs, output |-> processedPlaces', stage |-> "first" ]
       ELSE Null
  ELSE IF passInputs # lastPass.inputs
       THEN [ lastPass EXCEPT !.stage = IF @ = "first" THEN "other" ELSE @ ]
       ELSE [ lastPass EXCEPT !.stage = IF @ = "other" THEN "again" ELSE @ ]

\* effect 6 of MapComponent, for the core logic; an exception of
\* calculateShadowPolygon leaves the effect before setProcessedPlaces and
\* unmounts the component.
\* remember: the pass is the one later passes are compared with
CoreLogic(remember) ==
  /\ mapRef
  /\ ~ effectError
  /\ IF skipsShadows
     THEN setProcessedPlaces(newProcessed) /\ UNCHANGED effectError
     ELSE IF \E i \in DOMAIN castResults : castResults[i].kind = "throw"
          THEN effectError' = TRUE /\ UNCHANGED processedPlaces
          ELSE setProcessedPlaces(updatedPlaces) /\ UNCHANGED effectError
  /\ lastPass' = lastPassAfter(remember)
  /\ UNCHANGED << fetchVars, sunPosition, buildingsFromStore, allPlacesFromStore,
                  coreLogic, casterCall, mergeCall, hookVars >>

ShadeNext ==
  \/ MapInit
  \/ \E zoom \in ShadeZooms : ZoomEnd(<< 0, 0, GridH, GridW >>, zoom)
  \/ \E position \in SunCalcPositions : SunMoves(position)
  \/ \E buildings \in BuildingLists : BuildingsChange(buildings)
  \/ \E remember \in BOOLEAN : CoreLogic(remember)

ShadeSpec == ShadeInit /\ [][ShadeNext]_vars

\* the classification while the list of places changes
PassNext ==
  \/ MapInit
  \/ \E zoom \in ShadeZooms : ZoomEnd(<< 0, 0, GridH, GridW >>, zoom)
  \/ \E position \in SunCalcPositions : SunMoves(position)
  \/ \E buildings \in BuildingLists : BuildingsChange(buildings)
  \/ \E places \in PlaceLists : PlacesChange(places)
  \/ CoreLogic(FALSE)

PassSpec == ShadeInit /\ [][PassNext]_vars

\* ---- the classification of a scene with any Building values ----

\* Building values with and without a usable footprint
SceneBuildings ==
  { [ height |-> 20 ],
    [ geometry |-> [ type |-> "Polygon" ], height |-> 20 ],
    [ geometry |-> [ type |-> "Polygon",
                     coordinates |-> << << << 0, 0 >>, << 10, 0 >>, << 0, 0 >> >> >> ],
      height |-> 20 ],
    [ geometry |-> [ type |-> "Polygon", coordinates |-> << rectangleRing(10, 20) >> ],
      height |-> 20 ],
    [ geometry |-> [ type |-> "MultiPolygon",
                     coordinates |-> << << rectangleRing(10, 20) >>, << rectangleRing(30, 40) >> >> ],
      height |-> 20 ] }

\* the buildings of one scene
MaxSceneBuildings == 2

SceneBuildingLists ==
  { [ i \in DOMAIN l |-> [ id |-> i ] @@ l[i] ] :
      l \in UNION { [ 1..n -> SceneBuildings ] : n \in 0..MaxSceneBuildings } }

SceneInit == ShadeInit /\ coreLogic = "MapComponent.tsx"

SceneNext ==
  \/ MapInit
  \/ \E zoom \in ShadeZooms : ZoomEnd(<< 0, 0, GridH, GridW >>, zoom)
  \/ \E position \in SunCalcPositions : SunMoves(position)
  \/ \E buildings \in SceneBuildingLists : BuildingsChange(buildings)
  \/ CoreLogic(FALSE)

SceneSpec == SceneInit /\ [][SceneNext]_vars

\* ---- calls of the functions of lib/shadow.ts ----

\* the geometries a Place value can carry
AnyPlaceGeometries ==
  { [ type |-> "Point", coordinates |-> << 0, 0 >> ],
    [ type |-> "LineString", coordinates |-> << << 20, 0 >>, << 40, 0 >> >> ],
    [ type |-> "Polygon" ],
    [ type |-> "Polygon", coordinates |-> << >> ],
    [ type |-> "Polygon", coordinates |-> << << << 20, 0 >>, << 40, 0 >>, << 20, 0 >> >> >> ],
    [ type |-> "Polygon", coordinates |-> << rectangleRing(20, 40) >> ] }

PlaceCenters == { << 0, 0 >>, << 30, 0 >> }

\* Place values: isBuildingOutline and geometry are optional
AnyPlaces ==
  { [ id |-> 1, center |-> c ] : c \in PlaceCenters }
    \cup { [ id |-> 1, center |-> c, isBuildingOutline |-> b ] :
             c \in PlaceCenters, b \in BOOLEAN }
    \cup { [ id |-> 1, center |-> c, geometry |-> g ] :
             c \in PlaceCenters, g \in AnyPlaceGeometries }
    \cup { [ id |-> 1, center |-> c, isBuildingOutline |-> b, geometry |-> g ] :
             c \in PlaceCenters, b \in BOOLEAN, g \in AnyPlaceGeometries }

\* the locations isLocationInSun is called with: none, a coordinate, and a
\* coordinate with a component missing
AnyLocations == { Null, << 0, 0 >>, << 15, 0 >>, << 15 >> }

\* what the list of shadows can hold: null, a feature without geometry, a
\* polygon, a polygon without coordinates, one turf cannot read, and a
\* geometry that is no polygon
AnyShadowFeatures ==
  { Null,
    [ id |-> 1 ],
    polygonFeature(<< 10, 30 >>),
    polygonFeature(<< 40, 60 >>),
    polygonFeature(<< 10 >>),
    [ geometry |-> [ type |-> "Polygon" ] ],
    [ geometry |-> [ type |-> "MultiPolygon", coordinates |-> << 10, 30 >> ] ] }

MaxShadows == 2

AnyShadowLists == UNION { [ 1..n -> AnyShadowFeatures ] : n \in 0..MaxShadows }

\* a strip of LibGridW cells from west to east, and the boxes on it, those
\* without any width among them
LibGridW == 4
MaxHistory == 2

StripBoxes ==
  { b \in { << 0, w, 1, e >> : w \in 0..LibGridW, e \in 0..LibGridW } : b[2] <= b[4] }

StripHistories == UNION { [ 1..n -> StripBoxes ] : n \in 0..MaxHistory }

NotReturned == [ kind |-> "pending", value |-> Null ]

\* the calls: the function and its arguments
LibCalls ==
  { [ fn |-> "getRelevantShadowPointForPlace", args |-> << place >>,
      returned |-> FALSE, outcome |-> NotReturned ] : place \in AnyPlaces }
    \cup { [ fn |-> "isLocationInSun", args |-> << location, allCalculatedShadows >>,
             returned |-> FALSE, outcome |-> NotReturned ] :
             location \in AnyLocations, allCalculatedShadows \in AnyShadowLists }
    \cup { [ fn |-> "fetchOsmDataForUnfetchedAreas",
             args |-> << currentViewportBounds, history >>,
             returned |-> FALSE, outcome |-> NotReturned ] :
             currentViewportBounds \in { b \in StripBoxes : b[2] < b[4] },
             history \in StripHistories }

LibInit ==
  /\ StoreInit
  /\ sunPosition = Null /\ buildingsFromStore = << >> /\ allPlacesFromStore = << >>
  /\ processedPlaces = << >> /\ coreLogic = "MapComponent.tsx" /\ lastPass = Null
  /\ effectError = FALSE
  /\ casterCall = Null
  /\ mergeCall = Null
  /\ HooksIdle
  /\ libCall \in LibCalls

\* the call runs to its end
Ends(outcome) ==
  /\ ~ libCall.returned
  /\ libCall' = [ libCall EXCEPT !.returned = TRUE, !.outcome = outcome ]
  /\ UNCHANGED << nonLibVars, timeVars, alertVars, markerVars >>

CallGetRelevantShadowPointForPlace ==
  /\ libCall.fn = "getRelevantShadowPointForPlace"
  /\ Ends(Returned(getRelevantShadowPointForPlace(libCall.args[1])))

CallIsLocationInSun ==
  /\ libCall.fn = "isLocationInSun"
  /\ Ends(isLocationInSunCall(libCall.args[1], libCall.args[2]))

\* fetchOsmDataForUnfetchedAreas up to the request: the polygons
\* getUnfetchedAreas returns and the box that is requested
CallFetchOsmDataForUnfetchedAreas ==
  /\ libCall.fn = "fetchOsmDataForUnfetchedAreas"
  /\ Ends(Returned([ unfetchedPolygons |-> getUnfetchedAreas(libCall.args[1], libCall.args[2]),
                     targetBbox |-> targetBboxOf(libCall.args[1], libCall.args[2]) ]))

LibNext ==
  \/ CallGetRelevantShadowPointForPlace
  \/ CallIsLocationInSun
  \/ CallFetchOsmDataForUnfetchedAreas

LibSpec == LibInit /\ [][LibNext]_vars

\* ---- the time of the store: appStore.ts, useCurrentTime, TimeSlider ----

MINUTES_PER_DAY == 1440
SLIDER_STEP_MINUTES == 15
SLIDER_MAX_VALUE == 95

\* the clock starts two minutes before midnight and is followed for MaxClock
\* minutes
ClockStart == MINUTES_PER_DAY - 2
MaxClock == 3

\* the positions the slider is dragged to
SliderValues == { 0, 50, SLIDER_MAX_VALUE }

\* sliderValueToDate: the day of referenceDate, at sliderValue quarters
sliderValueToDate(sliderValue, referenceDate) ==
  (referenceDate \div MINUTES_PER_DAY) * MINUTES_PER_DAY
    + sliderValue * SLIDER_STEP_MINUTES

nonTimeVars == << nonLibVars, libCall, alertVars, markerVars >>

\* setCurrentTime that writes the time whoever controls it
setCurrentTimeUnguarded(time) ==
  /\ currentTime' = time
  /\ UNCHANGED isTimeManuallyControlled

setCurrentTime(time) ==
  /\ currentTime' = IF ~ isTimeManuallyControlled THEN time ELSE currentTime
  /\ UNCHANGED isTimeManuallyControlled

setManualTime(time) ==
  /\ currentTime' = time
  /\ isTimeManuallyControlled' = TRUE

switchToLiveTime ==
  /\ currentTime' = clock
  /\ isTimeManuallyControlled' = FALSE

setIsTimeManuallyControlled(isManual) ==
  /\ isTimeManuallyControlled' = isManual
  /\ currentTime' = IF ~ isManual THEN clock ELSE currentTime

TimeSpecInit ==
  /\ StoreInit
  /\ NonFetchShadeInit
  /\ libCall = Null
  /\ AlertInit /\ MarkerInit
  /\ clock = ClockStart
  /\ currentTime = ClockStart
  /\ isTimeManuallyControlled = FALSE
  /\ tickCall = Null

\* a minute passes
ClockTick ==
  /\ clock < ClockStart + MaxClock
  /\ clock' = clock + 1
  /\ UNCHANGED << currentTime, isTimeManuallyControlled, tickCall, nonTimeVars >>

\* the interval of useCurrentTime fires: setCurrentTime(new Date())
LiveTick ==
  /\ setCurrentTime(clock)
  /\ tickCall' = [ time |-> clock, taken |-> ~ isTimeManuallyControlled ]
  /\ UNCHANGED << clock, nonTimeVars >>

\* handleSliderChange of the TimeSlider
SliderChange(value) ==
  /\ setManualTime(sliderValueToDate(value, currentTime))
  /\ UNCHANGED << clock, tickCall, nonTimeVars >>

\* the "live" button of the TimeSlider
GoLive ==
  /\ switchToLiveTime
  /\ UNCHANGED << clock, tickCall, nonTimeVars >>

SetIsTimeManuallyControlled(isManual) ==
  /\ setIsTimeManuallyControlled(isManual)
  /\ UNCHANGED << clock, tickCall, nonTimeVars >>

TimeNext ==
  \/ ClockTick
  \/ LiveTick
  \/ \E value \in SliderValues : SliderChange(value)
  \/ GoLive
  \/ \E isManual \in BOOLEAN : SetIsTimeManuallyControlled(isManual)

TimeSpec == TimeSpecInit /\ [][TimeNext]_vars

\* ---- the markers of MapComponent (effect 7) ----

nonMarkerVars == << nonLibVars, libCall, timeVars, alertVars >>

\* the records a classification pass writes, and a record without any point
ProcessedShapes ==
  { [ isInSun |-> b, relevantShadowPoint |-> << 0, 0 >> ] : b \in BOOLEAN }
    \cup { [ isInSun |-> TRUE ] }

\* lists of processed places, with distinct ids
ProcessedLists ==
  UNION { { [ i \in DOMAIN ids |-> [ id |-> ids[i] ] @@ shapes[i] ] :
              shapes \in [ DOMAIN ids -> ProcessedShapes ] } :
          ids \in { l \in UNION { [ 1..n -> PlaceIds ] : n \in 0..NumPlaces } :
                      \A i, j \in DOMAIN l : l[i] = l[j] => i = j } }

\* the store's processedPlaces change
SetProcessedPlaces(places) ==
  /\ setProcessedPlaces(places)
  /\ UNCHANGED << fetchVars, sunPosition, buildingsFromStore, allPlacesFromStore,
                  coreLogic, lastPass, effectError, casterCall, mergeCall, hookVars >>

\* the ids of the processed places the effect puts a marker on: those with
\* a relevantShadowPoint or a center
pointToMark(place) == Has(place, "relevantShadowPoint") \/ Has(place, "center")

\* the effect for marker creation and updating: a place that has a tracked
\* marker gets it updated, any other place gets a new marker, which is put
\* into the new state; the old markers that are not in the new state leave
\* the map
MarkerSync ==
  /\ IF ~ mapRef
     THEN /\ markerInstances' = {}
          /\ UNCHANGED mapMarkers
     ELSE LET marked == { processedPlaces[i].id :
                            i \in { j \in DOMAIN processedPlaces :
                                      pointToMark(processedPlaces[j]) } }
              newMarkerInstancesState == marked \ markerInstances
          IN  /\ mapMarkers' =
                   (mapMarkers \cup newMarkerInstancesState)
                     \ (markerInstances \ newMarkerInstancesState)
              /\ markerInstances' = newMarkerInstancesState
  /\ UNCHANGED nonMarkerVars

MarkerNext ==
  \/ MapInit
  \/ \E places \in ProcessedLists : SetProcessedPlaces(places)
  \/ MarkerSync

MarkerSpec == Init /\ [][MarkerNext]_vars

\* ---- useSunAlerts ----

\* the constants of the hook, in minutes
CHECK_INTERVAL_MS == 1
NOTIFICATION_LEAD_TIME_MS == 15
PREDICTION_HORIZON_MS == 30
PREDICTION_STEP_MS == 5

\* the interval of the hook is followed up to this minute
MaxAlertClock == 22

nonAlertVars ==
  << fetchVars, sunPosition, allPlacesFromStore, processedPlaces, coreLogic, lastPass,
     effectError, casterCall, mergeCall, libCall, currentTime,
     isTimeManuallyControlled, tickCall, markerVars >>

\* SunCalc.getPosition over a morning: night until minute 10, a low sun
\* until minute 20, a high sun after
sunCalcGetPosition(time) ==
  [ azimuth |-> 0,
    altitude |-> IF time < 10 THEN -100 ELSE IF time < 20 THEN 464 ELSE 785 ]

\* the places of the store: one north of the building, one south of it
AlertPlaces ==
  << [ id |-> 1, center |-> << 50, 0 >>, isBuildingOutline |-> FALSE ],
     [ id |-> 2, center |-> << 0, 0 >>, isBuildingOutline |-> FALSE ] >>

\* the filter on the buildings: the centre of the building is less than
\* 2 km from the point
relevantBuildings(from) ==
  SelectSeq(buildingsFromStore,
            LAMBDA b :
              /\ Has(b, "geometry")
              /\ LET buildingCenter == centroid(b.geometry.coordinates[1])
                     dx == buildingCenter[1] - from[1]
                     dy == buildingCenter[2] - from[2]
                 IN  dx * dx + dy * dy < 2000 * 2000)

\* the shadows of the buildings around the point under the sun
shadowsAround(from, sun) ==
  LET near == relevantBuildings(from)
      cast == SelectSeq([ i \in DOMAIN near |-> calculateShadowPolygon(near[i], sun) ],
                        LAMBDA r : r.kind = "shadow")
  IN  [ i \in DOMAIN cast |-> polygonFeature(cast[i].hull) ]

currentlyInSun(place, now) ==
  LET currentSunPosCalc == sunCalcGetPosition(now)
  IN  IF currentSunPosCalc.altitude > 0 /\ Len(buildingsFromStore) > 0
      THEN isLocationInSun(getRelevantShadowPointForPlace(place),
                           shadowsAround(place.center, currentSunPosCalc))
      ELSE currentSunPosCalc.altitude > 0 /\ Len(buildingsFromStore) = 0

\* the test of the prediction loop at futureTime; the filter on the
\* buildings measures from [lat, lat]
willBeInSun(place, futureTime) ==
  LET futureSunPosition == sunCalcGetPosition(futureTime)
  IN  /\ futureSunPosition.altitude > 0
      /\ \/ Len(buildingsFromStore) = 0 /\ futureSunPosition.altitude > 100
         \/ /\ Len(buildingsFromStore) > 0
            /\ isLocationInSun(getRelevantShadowPointForPlace(place),
                               shadowsAround(<< place.center[2], place.center[2] >>,
                                             futureSunPosition))

\* the offsets of the prediction loop
Offsets ==
  { k * PREDICTION_STEP_MS : k \in 1..(PREDICTION_HORIZON_MS \div PREDICTION_STEP_MS) }

\* the offsets at which the loop creates a Notification and breaks
alertOffsets(place, now) ==
  { t_offset \in Offsets :
      willBeInSun(place, now + t_offset) /\ t_offset <= NOTIFICATION_LEAD_TIME_MS }

\* the test for a notification that is still ahead, left out
existingNotificationNever(events, place, now) == FALSE

existingNotification(events, place, now) ==
  \E i \in DOMAIN events :
    events[i].placeId = place.id /\ now < events[i].predictedSunTime

\* the bookmarked places the interval callback at now creates a Notification for, as
\* events, in the order of the bookmarks
eventsOfCheck(events, now) ==
  LET alerted(i) ==
        /\ allPlacesFromStore[i].id \in bookmarks
        /\ ~ existingNotification(events, allPlacesFromStore[i], now)
        /\ ~ currentlyInSun(allPlacesFromStore[i], now)
        /\ alertOffsets(allPlacesFromStore[i], now) # {}
      places == SelectSeq([ i \in DOMAIN allPlacesFromStore |-> i ], alerted)
  IN  [ k \in DOMAIN places |->
          [ placeId |-> allPlacesFromStore[places[k]].id,
            predictedSunTime |->
              now + Min(alertOffsets(allPlacesFromStore[places[k]], now)) ] ]

AlertSpecInit ==
  /\ StoreInit
  /\ sunPosition = Null
  /\ buildingsFromStore \in BuildingLists
  /\ allPlacesFromStore = AlertPlaces
  /\ processedPlaces = << >> /\ coreLogic = "MapComponent.tsx" /\ lastPass = Null
  /\ effectError = FALSE
  /\ casterCall = Null /\ mergeCall = Null /\ libCall = Null
  /\ TimeInit /\ AlertInit /\ MarkerInit

\* addBookmark / removeBookmark of the store
ToggleBookmark(placeId) ==
  /\ bookmarks' = IF placeId \in bookmarks THEN bookmarks \ { placeId }
                  ELSE bookmarks \cup { placeId }
  /\ UNCHANGED << clock, notifiedEventsRef, notifications, buildingsFromStore, nonAlertVars >>

\* a minute passes and the interval of the hook fires
AlertCheck ==
  /\ clock < MaxAlertClock
  /\ clock' = clock + CHECK_INTERVAL_MS
  /\ LET now == clock'
         kept == SelectSeq(notifiedEventsRef,
                           LAMBDA event :
                             now < event.predictedSunTime + PREDICTION_HORIZON_MS * 2)
         new == eventsOfCheck(kept, now)
     IN  IF bookmarks = {} \/ Len(allPlacesFromStore) = 0 \/ mapCenter = Null
         THEN UNCHANGED << notifiedEventsRef, notifications >>
         ELSE /\ notifiedEventsRef' = kept \o new
              /\ notifications' =
                   notifications \o [ k \in DOMAIN new |-> [ at |-> now ] @@ new[k] ]
  /\ UNCHANGED << bookmarks, buildingsFromStore, nonAlertVars >>

AlertNext ==
  \/ \E i \in DOMAIN AlertPlaces : ToggleBookmark(AlertPlaces[i].id)
  \/ \E buildings \in BuildingLists : BuildingsChange(buildings)
  \/ AlertCheck

AlertSpec == AlertSpecInit /\ [][AlertNext]_vars

\* ---- properties ----

\* the unit cells inside a bounding box [s, w, n, e]
CellsOfBox(b) ==
  { c \in (0..(GridW - 1)) \X (0..(GridH - 1)) :
      b[2] <= c[1] /\ c[1] < b[4] /\ b[1] <= c[2] /\ c[2] < b[3] }

\* the cells covered by some box of a history
CoveredBy(history) == UNION { CellsOfBox(history[i]) : i \in DOMAIN history }

RECURSIVE SumAreas(_, _)
SumAreas(polys, i) ==
  IF i > Len(polys) THEN 0 ELSE turfArea(polys[i]) + SumAreas(polys, i + 1)

\* the total uncovered area getUnfetchedAreas reports
UncoveredArea(viewport, history) == SumAreas(getUnfetchedAreas(viewport, history), 1)

idsOf(seq) == [ i \in DOMAIN seq |-> idOf(seq[i]) ]

NoDuplicates(seq) == \A i, j \in DOMAIN seq : seq[i] = seq[j] => i = j

IsPrefix(a, b) == Len(a) <= Len(b) /\ SubSeq(b, 1, Len(a)) = a

Front(seq) == SubSeq(seq, 1, Len(seq) - 1)

\* C1: every step that appends a fetched box to the history (the box of the
\* largest gap of the viewport has been fetched) happens with something
\* uncovered, and strictly shrinks the uncovered area getUnfetchedAreas
\* reports for the viewport
C1_FetchShrinksUncovered ==
  [][ Len(fetchedBoundsHistory') = Len(fetchedBoundsHistory) + 1
        => /\ mapBoundsForQuery # Null
           /\ mapBoundsForQuery' = mapBoundsForQuery
           /\ UncoveredArea(mapBoundsForQuery, fetchedBoundsHistory) > 0
           /\ UncoveredArea(mapBoundsForQuery, fetchedBoundsHistory')
                < UncoveredArea(mapBoundsForQuery, fetchedBoundsHistory) ]_vars

\* a gap of a partly covered viewport has been fetched and appended
C1_Witness ==
  /\ mapBoundsForQuery # Null
  /\ Len(fetchedBoundsHistory) >= 2
  /\ LET before == Front(fetchedBoundsHistory)
     IN  /\ UncoveredArea(mapBoundsForQuery, before) > 0
         /\ UncoveredArea(mapBoundsForQuery, before) < Cardinality(CellsOfBox(mapBoundsForQuery))
         /\ fetchedBoundsHistory[Len(fetchedBoundsHistory)]
              = targetBboxOf(mapBoundsForQuery, before)

\* C3: no id occurs twice in allFetchedPlaces, nor in allFetchedBuildings
C3_PoolsHaveUniqueIds ==
  NoDuplicates(idsOf(allFetchedPlaces)) /\ NoDuplicates(idsOf(allFetchedBuildings))

\* the last fetch merged returned a place the pool held already: the pool
\* keeps that place before another one of the same response, which the
\* response lists first
C3_Witness ==
  /\ Len(fetchedBoundsHistory) >= 2
  /\ \E q \in queryCache :
       /\ q.status = "success"
       /\ q.fetchedBbox # Null
       /\ Append(q.hist, q.fetchedBbox) = fetchedBoundsHistory
       /\ q.buildings # << >>
       /\ \E i, j \in DOMAIN q.places, k, l \in DOMAIN allFetchedPlaces :
            /\ i < j /\ l < k
            /\ allFetchedPlaces[k] = q.places[i]
            /\ allFetchedPlaces[l] = q.places[j]

\* C6: whenever the history covers a viewport entirely, getUnfetchedAreas
\* returns the empty list for it
C6_CoveredViewportHasNoGap ==
  \A V \in Boxes :
    CellsOfBox(V) \subseteq CoveredBy(fetchedBoundsHistory)
      => getUnfetchedAreas(V, fetchedBoundsHistory) = << >>

\* the viewport lies strictly inside the one box fetched so far
C6_Witness ==
  /\ mapBoundsForQuery # Null
  /\ Len(fetchedBoundsHistory) = 1
  /\ fetchedBoundsHistory[1] # mapBoundsForQuery
  /\ CellsOfBox(mapBoundsForQuery) \subseteq CellsOfBox(fetchedBoundsHistory[1])
  /\ \E q \in currentQuery : q.status = "success" /\ q.fetchedBbox = Null

\* C7: the regions getUnfetchedAreas returns are exactly the viewport minus
\* the boxes of the history, and none extends outside the viewport
C7_GapsAreViewportMinusHistory ==
  \A V \in Boxes :
    LET areas == getUnfetchedAreas(V, fetchedBoundsHistory)
    IN  /\ UNION { areas[i] : i \in DOMAIN areas }
             = CellsOfBox(V) \ CoveredBy(fetchedBoundsHistory)
        /\ \A i \in DOMAIN areas : areas[i] \subseteq CellsOfBox(V)

\* the viewport is partly covered by the history, and its gap is requested
C7_Witness ==
  /\ mapBoundsForQuery # Null
  /\ Len(fetchedBoundsHistory) >= 1
  /\ LET left == CellsOfBox(mapBoundsForQuery) \ CoveredBy(fetchedBoundsHistory)
     IN  left # {} /\ left # CellsOfBox(mapBoundsForQuery)
  /\ \E q \in currentQuery : q.status = "pending"

\* C8: with an empty history getUnfetchedAreas returns one region, the
\* whole viewport
C8_EmptyHistoryGivesViewport ==
  mapBoundsForQuery # Null /\ fetchedBoundsHistory = << >>
    => LET areas == getUnfetchedAreas(mapBoundsForQuery, fetchedBoundsHistory)
       IN  /\ Len(areas) = 1
           /\ areas[1] = CellsOfBox(mapBoundsForQuery)
           /\ turfArea(areas[1]) = Cardinality(CellsOfBox(mapBoundsForQuery))

\* a viewport larger than one cell is requested against an empty history
C8_Witness ==
  /\ mapBoundsForQuery # Null
  /\ fetchedBoundsHistory = << >>
  /\ Cardinality(CellsOfBox(mapBoundsForQuery)) > 1
  /\ \E q \in currentQuery : q.status = "pending" /\ q.fetchedBbox = mapBoundsForQuery

PoolsAndHistoryEmpty ==
  /\ allFetchedPlaces = << >>
  /\ allFetchedBuildings = << >>
  /\ fetchedBoundsHistory = << >>

\* the viewport or the zoom changes, or the accumulated history is reset
ViewportChangeOrReset ==
  \/ mapBoundsForQuery' # mapBoundsForQuery
  \/ mapZoom' # mapZoom
  \/ (fetchedBoundsHistory # << >> /\ fetchedBoundsHistory' = << >>)

\* nothing of the viewport is uncovered, and no map-data request is open
FetchLoopAtRest ==
  /\ UncoveredArea(mapBoundsForQuery, fetchedBoundsHistory) = 0
  /\ \A q \in queryCache : q.status # "pending"

\* C2: when every fetch succeeds, then unless the viewport keeps changing (or
\* the history keeps being reset), from some point on the viewport, where
\* fetching is enabled, is covered entirely and no request is open
C2_FetchLoopTerminates ==
  \/ []<><<ViewportChangeOrReset>>_vars
  \/ <>[](queryEnabled => FetchLoopAtRest)

\* the loop has ended on a viewport that a history of several boxes covers
C2_Witness ==
  /\ queryEnabled
  /\ Len(fetchedBoundsHistory) >= 2
  /\ fetchedBoundsHistory[Len(fetchedBoundsHistory)]
       = targetBboxOf(mapBoundsForQuery, Front(fetchedBoundsHistory))
  /\ FetchLoopAtRest
  /\ \E q \in currentQuery : q.status = "success" /\ q.fetchedBbox = Null

\* a request of query q fails in this step
FetchFailsStep(q) ==
  /\ q \in queryCache
  /\ q.status = "pending"
  /\ [ q EXCEPT !.status = "error" ] \in queryCache'

\* C4: a failed fetch leaves the pools and the history as they were, and the
\* next gap computation for the same viewport yields the same target box
C4_FailedFetchChangesNothing ==
  [][ \A q \in queryCache : FetchFailsStep(q)
        => /\ allFetchedPlaces' = allFetchedPlaces
           /\ allFetchedBuildings' = allFetchedBuildings
           /\ fetchedBoundsHistory' = fetchedBoundsHistory
           /\ q \in currentQuery
                => /\ q.fetchedBbox \notin Range(fetchedBoundsHistory')
                   /\ targetBboxOf(mapBoundsForQuery', fetchedBoundsHistory') = q.fetchedBbox ]_vars

\* the fetch of a gap has failed while places and a history are accumulated
C4_Witness ==
  /\ fetchedBoundsHistory # << >>
  /\ allFetchedPlaces # << >>
  /\ \E q \in currentQuery :
       /\ q.status = "error"
       /\ targetBboxOf(mapBoundsForQuery, fetchedBoundsHistory) = q.fetchedBbox

\* a request of query q succeeds in this step
FetchSucceedsStep(q) ==
  /\ q \in queryCache
  /\ q.status = "pending"
  /\ \E r \in queryCache' :
       r.bounds = q.bounds /\ r.hist = q.hist /\ r.status = "success"

\* C5: whenever the fetch of a target box completes successfully, the box
\* is appended to fetchedBoundsHistory, whatever the response holds
C5_CompletedFetchIsAppended ==
  [][ \A q \in queryCache : FetchSucceedsStep(q)
        => fetchedBoundsHistory' = Append(fetchedBoundsHistory, q.fetchedBbox) ]_vars

\* the steps that set a new location: a search result is chosen, the search
\* is cleared, the device is located, a bookmarked place is gone to
NewLocationStep ==
  \/ \E location \in NominatimBoxes : SelectLocation(location)
  \/ ClearLocation
  \/ UserLocated(GpsFix)
  \/ \E box \in UnitBoxes : GoToPlace(CenterOf(box))

\* the map is observed at a zoom below the fetch threshold
ZoomOutStep ==
  \E box \in Boxes, zoom \in ObservedZooms :
    zoom < MIN_ZOOM_LEVEL_FOR_FETCH /\ MapViewChange(box, zoom)

SearchThisAreaStep == \E box \in Boxes : SearchThisArea(box)

\* the history is extended, and no id leaves the pools
AccumulatorGrows ==
  /\ IsPrefix(fetchedBoundsHistory, fetchedBoundsHistory')
  /\ Range(allFetchedPlaces) \subseteq Range(allFetchedPlaces')
  /\ Range(allFetchedBuildings) \subseteq Range(allFetchedBuildings')

C10_ResetEmptiesAccumulator ==
  /\ [](mapZoom < MIN_ZOOM_LEVEL_FOR_FETCH => PoolsAndHistoryEmpty)
  /\ [][ ((\E location \in NominatimBoxes : SelectLocation(location)) \/ ZoomOutStep)
          => PoolsAndHistoryEmpty' ]_vars

\* the map is zoomed out below the threshold after a history had been
\* accumulated: a query started against that history is still in the cache
C10_Witness ==
  /\ mapZoom < MIN_ZOOM_LEVEL_FOR_FETCH
  /\ PoolsAndHistoryEmpty
  /\ \E q \in queryCache : q.hist # << >>

\* C11: a fetch still in flight after its query key stopped being the current
\* one is merged when it completes successfully: its box is appended to the
\* history and its places and buildings are in the pools
C11_StaleFetchIsMerged ==
  [][ \A q \in queryCache :
        (FetchSucceedsStep(q) /\ q \notin currentQuery)
          => /\ fetchedBoundsHistory' = Append(fetchedBoundsHistory, q.fetchedBbox)
             /\ \A r \in queryCache' :
                  (r.bounds = q.bounds /\ r.hist = q.hist)
                    => /\ Range(idsOf(r.places)) \subseteq Range(idsOf(allFetchedPlaces'))
                       /\ Range(idsOf(r.buildings)) \subseteq Range(idsOf(allFetchedBuildings')) ]_vars

SameKey(q, r) == q.bounds = r.bounds /\ q.hist = r.hist

\* C13: the cache holds one query per (bounds, history) pair, and a request is
\* started for a pair only when the cache holds no query of that pair
C13_OneRequestPerKey ==
  /\ [](\A q, r \in queryCache : SameKey(q, r) => q = r)
  /\ [][ \A r \in queryCache' \ queryCache :
          r.status = "pending" => ~ \E q \in queryCache : SameKey(q, r) ]_vars

\* the request of the current pair is in flight after the user has moved the
\* map, with a history accumulated: rendering again starts no query
C13_Witness ==
  /\ queryEnabled
  /\ hasMapMoved
  /\ fetchedBoundsHistory # << >>
  /\ \E q \in currentQuery : q.status = "pending"
  /\ ~ ENABLED StartQuery

\* both results have been merged, in the order mergeCall.order
BothMerged == mergeCall # Null /\ Range(mergeCall.order) = {1, 2}

\* the result merged first and the one merged after it
FirstMerged == mergeCall.results[mergeCall.order[1]]
SecondMerged == mergeCall.results[3 - mergeCall.order[1]]

\* the pools the opposite merge order gives from empty pools
OppositePlaces == mergeById(mergeById(<< >>, SecondMerged.places), FirstMerged.places)
OppositeBuildings == mergeById(mergeById(<< >>, SecondMerged.buildings), FirstMerged.buildings)

\* a step that merges a result that was merged before
MergedAgainStep ==
  /\ mergeCall # Null /\ mergeCall' # Null
  /\ Len(mergeCall'.order) = Len(mergeCall.order) + 1
  /\ mergeCall'.order[Len(mergeCall'.order)] \in Range(mergeCall.order)

\* C12 as stated: merging R1 then R2 gives the same pools (the same records)
\* as merging R2 then R1, and merging a result again changes no pool
C12_MergeIsSetUnion ==
  /\ [](BothMerged => /\ Range(allFetchedPlaces) = Range(OppositePlaces)
                      /\ Range(allFetchedBuildings) = Range(OppositeBuildings))
  /\ [][MergedAgainStep => UNCHANGED << allFetchedPlaces, allFetchedBuildings >>]_vars

\* C12: merging R1 then R2 gives pools with the same ids as merging R2 then
\* R1, and merging a result again changes no pool
C12_MergeIdsOrderIndependent ==
  /\ [](BothMerged => /\ Range(idsOf(allFetchedPlaces)) = Range(idsOf(OppositePlaces))
                      /\ Range(idsOf(allFetchedBuildings)) = Range(idsOf(OppositeBuildings)))
  /\ [][MergedAgainStep => UNCHANGED << allFetchedPlaces, allFetchedBuildings >>]_vars

\* R1, then R2, then R1 again were merged; the two results share a place at
\* different revisions, so the pools of the two orders hold different records
C12_Witness ==
  /\ mergeCall # Null
  /\ mergeCall.order = << 1, 2, 1 >>
  /\ Range(idsOf(mergeCall.results[1].places)) \cap Range(idsOf(mergeCall.results[2].places)) # {}
  /\ Range(allFetchedPlaces) # Range(OppositePlaces)
  /\ Range(idsOf(mergeCall.results[1].places)) # Range(idsOf(mergeCall.results[2].places))

\* a step of the effect for the core logic
CoreLogicStep == \E remember \in BOOLEAN : CoreLogic(remember)

\* the shadow polygons the caster computes for the loaded buildings
LoadedShadows ==
  { calculateShadowPolygon(buildingsFromStore[i], sunPosition).hull :
      i \in { j \in DOMAIN buildingsFromStore :
                 calculateShadowPolygon(buildingsFromStore[j], sunPosition).kind = "shadow" } }

\* after the step every place has a record, in-sun exactly when its relevant
\* shadow point is inside no shadow polygon of the loaded buildings
ClassifiedByShadows ==
  /\ Len(processedPlaces') = Len(allPlacesFromStore)
  /\ \A i \in DOMAIN allPlacesFromStore :
       LET point == getRelevantShadowPointForPlace(allPlacesFromStore[i])
       IN  /\ processedPlaces'[i].id = allPlacesFromStore[i].id
           /\ processedPlaces'[i].isInSun
                 <=> ~ \E hull \in LoadedShadows :
                         hull[1] <= point[1] /\ point[1] <= hull[2]

\* after the step every place has a record with the given sun state
AllPlacesSet(inSun) ==
  /\ Len(processedPlaces') = Len(allPlacesFromStore)
  /\ \A i \in DOMAIN allPlacesFromStore :
       /\ processedPlaces'[i].id = allPlacesFromStore[i].id
       /\ processedPlaces'[i].isInSun = inSun

\* C14 as stated: in a pass with the sun up and a building loaded, a place is
\* set in-sun exactly when its relevant shadow point is in no shadow polygon
C14_InSunIffOutsideShadows ==
  [][ (CoreLogicStep /\ sunPosition # Null /\ Len(buildingsFromStore) >= 1)
        => ClassifiedByShadows ]_vars

\* C14: in a pass with the sun above the altitude threshold, a building
\* loaded and the map at the zoom for shadows, a place is set in-sun exactly
\* when its relevant shadow point is in no shadow polygon
C14_InSunIffOutsideShadowsWhenCast ==
  [][ (/\ CoreLogicStep
       /\ sunPosition # Null /\ sunPosition.altitude > MIN_SUN_ALTITUDE_RAD
       /\ Len(buildingsFromStore) >= 1
       /\ mapZoom >= MIN_ZOOM_FOR_SHADOWS)
        => ClassifiedByShadows ]_vars

\* a pass of the version with the zoom gate has set one place in-shade and
\* another in-sun
C14_Witness ==
  /\ coreLogic = "part_002"
  /\ mapRef /\ mapZoom >= MIN_ZOOM_FOR_SHADOWS
  /\ sunPosition # Null /\ Len(buildingsFromStore) >= 1
  /\ ~ skipsShadows
  /\ processedPlaces = updatedPlaces
  /\ \E i, j \in DOMAIN processedPlaces :
       processedPlaces[i].isInSun /\ ~ processedPlaces[j].isInSun

\* C15: useSunPosition gives no sun position for an altitude at or below the
\* horizon, and a pass without a sun position sets every place in-shade
C15_SunDownAllInShade ==
  /\ [][ \A position \in SunCalcPositions :
           (SunMoves(position) /\ position.altitude <= 0) => sunPosition' = Null ]_vars
  /\ [][ (CoreLogicStep /\ sunPosition = Null) => AllPlacesSet(FALSE) ]_vars

\* a pass has set the places in-shade with the sun down and a building loaded
C15_Witness ==
  /\ mapRef
  /\ sunPosition = Null
  /\ Len(buildingsFromStore) >= 1
  /\ Len(processedPlaces) >= 1
  /\ processedPlaces = newProcessed
  /\ \A i \in DOMAIN processedPlaces : ~ processedPlaces[i].isInSun

\* C16 as stated: a pass with the sun up and no building loaded sets every
\* place in-sun
C16_NoBuildingsAllInSun ==
  [][ (CoreLogicStep /\ sunPosition # Null /\ Len(buildingsFromStore) = 0)
        => AllPlacesSet(TRUE) ]_vars

\* C16: a pass with the sun above the altitude threshold and no building
\* loaded sets every place in-sun
C16_NoBuildingsAllInSunAboveThreshold ==
  [][ (/\ CoreLogicStep
       /\ sunPosition # Null /\ sunPosition.altitude > MIN_SUN_ALTITUDE_RAD
       /\ Len(buildingsFromStore) = 0)
        => AllPlacesSet(TRUE) ]_vars

\* a pass has set the places in-sun with no building loaded
C16_Witness ==
  /\ mapRef
  /\ sunPosition # Null /\ sunPosition.altitude > MIN_SUN_ALTITUDE_RAD
  /\ Len(buildingsFromStore) = 0
  /\ Len(processedPlaces) >= 1
  /\ processedPlaces = newProcessed
  /\ \A i \in DOMAIN processedPlaces : processedPlaces[i].isInSun

\* C19 as stated: a pass on the places, buildings and sun position of the
\* remembered pass gives the records of the remembered pass
C19_SameInputsSameRecords ==
  [][ (/\ CoreLogicStep
       /\ lastPass # Null
       /\ lastPass.inputs.places = allPlacesFromStore
       /\ lastPass.inputs.buildings = buildingsFromStore
       /\ lastPass.inputs.sunPosition = sunPosition)
        => processedPlaces' = lastPass.output ]_vars

\* C19: a pass on the places, buildings, sun position and map zoom of the
\* remembered pass gives the records of the remembered pass
C19_SameInputsAndZoomSameRecords ==
  [][ (CoreLogicStep /\ lastPass # Null /\ lastPass.inputs = passInputs)
        => processedPlaces' = lastPass.output ]_vars

\* after the remembered pass a pass on other inputs gave other records, and
\* a pass on the remembered inputs has run since
C19_Witness ==
  /\ lastPass # Null
  /\ lastPass.stage = "again"
  /\ lastPass.inputs = passInputs
  /\ processedPlaces = lastPass.output
  /\ \E i \in DOMAIN processedPlaces : ~ processedPlaces[i].isInSun
  /\ \E i \in DOMAIN processedPlaces : processedPlaces[i].isInSun

\* C17: the caster returns no shadow for a building of height 0 or less
C17_NonPositiveHeightCastsNoShadow ==
  (/\ casterCall # Null /\ casterCall.returned
   /\ Has(casterCall.building, "height") /\ casterCall.building.height <= 0)
    => casterCall.result = NoShadow

\* C18: the caster returns no shadow for a sun altitude at or below the
\* threshold, whatever the building
C18_LowSunCastsNoShadow ==
  (/\ casterCall # Null /\ casterCall.returned
   /\ casterCall.sunPosition.altitude <= MIN_SUN_ALTITUDE_RAD)
    => casterCall.result = NoShadow

\* the caster has returned no shadow for a building with a footprint and a
\* positive height, the sun above the horizon and not above the threshold
C18_Witness ==
  /\ casterCall # Null /\ casterCall.returned
  /\ casterCall.sunPosition.altitude > 0
  /\ casterCall.sunPosition.altitude <= MIN_SUN_ALTITUDE_RAD
  /\ Has(casterCall.building, "height") /\ casterCall.building.height > 0
  /\ Has(casterCall.building, "geometry")
  /\ casterCall.building.geometry = [ type |-> "Polygon", coordinates |-> << rectangleRing(0, 10) >> ]
  /\ casterCall.result = NoShadow

\* the ring the caster takes the footprint from, << >> when there is none
footprintRing(building) ==
  IF ~ Has(building, "geometry") THEN << >>
  ELSE IF ~ Has(building.geometry, "coordinates") THEN << >>
  ELSE IF building.geometry.type = "Polygon"
  THEN IF Len(building.geometry.coordinates) = 0 THEN << >>
       ELSE building.geometry.coordinates[1]
  ELSE IF building.geometry.type = "MultiPolygon"
  THEN IF Len(building.geometry.coordinates) = 0 \/ Len(building.geometry.coordinates[1]) = 0
       THEN << >>
       ELSE building.geometry.coordinates[1][1]
  ELSE << >>

\* a building with invalid input: no geometry, no coordinates, a ring of
\* fewer than four vertices or a vertex that is not a coordinate pair
InvalidInput(building) ==
  \/ Len(footprintRing(building)) < 4
  \/ \E i \in DOMAIN footprintRing(building) : Len(footprintRing(building)[i]) < 2

\* the shadows of the buildings of the store whose input is valid
ShadowsOfValidBuildings ==
  { calculateShadowPolygon(buildingsFromStore[i], sunPosition).hull :
      i \in { j \in DOMAIN buildingsFromStore :
                 /\ ~ InvalidInput(buildingsFromStore[j])
                 /\ calculateShadowPolygon(buildingsFromStore[j], sunPosition).kind = "shadow" } }

\* C20: in a pass that casts shadows, a building with invalid input gives no
\* shadow, no exception leaves the effect, and every place is classified
\* against the shadows of the other buildings
C20_InvalidBuildingIsSkipped ==
  [][ (CoreLogicStep /\ ~ skipsShadows)
        => /\ \A i \in DOMAIN buildingsFromStore :
                InvalidInput(buildingsFromStore[i]) => castResults[i] = NoShadow
           /\ ~ effectError'
           /\ Len(processedPlaces') = Len(allPlacesFromStore)
           /\ \A i \in DOMAIN allPlacesFromStore :
                LET point == getRelevantShadowPointForPlace(allPlacesFromStore[i])
                IN  /\ processedPlaces'[i].id = allPlacesFromStore[i].id
                    /\ processedPlaces'[i].isInSun
                          <=> ~ \E hull \in ShadowsOfValidBuildings :
                                  hull[1] <= point[1] /\ point[1] <= hull[2] ]_vars

\* C30: when the history is empty, the pools of places and buildings are empty
C30_EmptyHistoryEmptyPools ==
  fetchedBoundsHistory = << >>
    => allFetchedPlaces = << >> /\ allFetchedBuildings = << >>

\* a fetch delivered places and buildings, and a reset has emptied the
\* history and the pools since
C30_Witness ==
  /\ fetchedBoundsHistory = << >>
  /\ allFetchedPlaces = << >> /\ allFetchedBuildings = << >>
  /\ \E q \in queryCache :
       /\ q.status = "success"
       /\ q.hist = << >>
       /\ q.places # << >> /\ q.buildings # << >>
       /\ q \notin currentQuery

\* a call of fn has returned or thrown
Ended(fn) == libCall # Null /\ libCall.fn = fn /\ libCall.returned

\* the place is a building outline whose footprint is a polygon
OutlineWithFootprint(place) ==
  /\ Has(place, "isBuildingOutline") /\ place.isBuildingOutline
  /\ Has(place, "geometry") /\ place.geometry.type = "Polygon"
  /\ Has(place.geometry, "coordinates")
  /\ place.geometry.coordinates # << >>
  /\ ~ turfPolygonThrows(place.geometry.coordinates)

NotOutline(place) == ~ (Has(place, "isBuildingOutline") /\ place.isBuildingOutline)

\* the mean of the corners of the footprint
FootprintCentroid(place) ==
  LET ring == place.geometry.coordinates[1]
      corners == { ring[i] : i \in DOMAIN ring }
  IN  CHOOSE p \in (0..100) \X { ring[1][2] } :
        p[1] * Cardinality(corners) <= SumX(ring, Len(ring) - 1)
        /\ SumX(ring, Len(ring) - 1) < (p[1] + 1) * Cardinality(corners)

\* C26: the relevant shadow point of a place that is a building outline is
\* the centroid of its footprint; of any place that is not, its stored center
C26_CentroidOfOutlineElseCenter ==
  Ended("getRelevantShadowPointForPlace") =>
    LET place == libCall.args[1]
    IN  /\ libCall.outcome.kind = "returned"
        /\ OutlineWithFootprint(place) => libCall.outcome.value = FootprintCentroid(place)
        /\ NotOutline(place) => libCall.outcome.value = place.center

C26_Witness ==
  /\ Ended("getRelevantShadowPointForPlace")
  /\ OutlineWithFootprint(libCall.args[1])
  /\ libCall.outcome.value = << 30, 0 >>
  /\ libCall.args[1].center = << 0, 0 >>

\* C21: isLocationInSun returns a boolean and never throws, whatever the
\* location and the list of shadows; without a location it returns true
C21_ClassifierIsTotal ==
  Ended("isLocationInSun") =>
    /\ libCall.outcome.kind = "returned"
    /\ libCall.outcome.value \in BOOLEAN
    /\ libCall.args[1] = Null => libCall.outcome.value = TRUE

C21_Witness ==
  /\ Ended("isLocationInSun")
  /\ libCall.args[1] = << 15, 0 >>
  /\ libCall.args[2] = << polygonFeature(<< 10 >>), polygonFeature(<< 10, 30 >>) >>
  /\ libCall.outcome = Returned(FALSE)

C21_WitnessNoLocation ==
  /\ Ended("isLocationInSun")
  /\ libCall.args[1] = Null
  /\ libCall.args[2] # << >>
  /\ libCall.outcome = Returned(TRUE)

\* C24: when turf.destination fails on a vertex of the footprint, the caster
\* returns no shadow: it builds no polygon from the vertices it could project
C24_ProjectionAllOrNothing ==
  (casterCall # Null /\ casterCall.returned) =>
    LET ring == footprintRing(casterCall.building)
    IN  (\E i \in DOMAIN ring : Len(ring[i]) >= 2 /\ destinationThrows(ring[i]))
          => casterCall.result = NoShadow

C24_Witness ==
  /\ casterCall # Null /\ casterCall.returned
  /\ casterCall.sunPosition.altitude = 785
  /\ Has(casterCall.building, "height") /\ casterCall.building.height = 20
  /\ Has(casterCall.building, "geometry")
  /\ LET ring == footprintRing(casterCall.building)
     IN  /\ Len(ring) >= 4
         /\ \A i \in DOMAIN ring : Len(ring[i]) >= 2
         /\ \E i \in DOMAIN ring : destinationThrows(ring[i])
         /\ \E i \in DOMAIN ring : ~ destinationThrows(ring[i])
  /\ casterCall.result = NoShadow

\* processedPlaces holds one full record for each place of the list, in the
\* order of the list, and nothing else
OneRecordPerPlace ==
  /\ Len(processedPlaces) = Len(allPlacesFromStore)
  /\ \A i \in DOMAIN allPlacesFromStore :
       LET place == allPlacesFromStore[i]
           record == processedPlaces[i]
       IN  /\ DOMAIN record = { "id", "isInSun", "relevantShadowPoint" }
           /\ record.id = place.id
           /\ record.isInSun \in BOOLEAN
           /\ record.relevantShadowPoint =
                IF place.isBuildingOutline THEN FootprintCentroid(place) ELSE place.center

\* C25: after every classification pass processedPlaces holds exactly one
\* record per place of the current list and no other, each with a boolean
\* sun state and the relevant shadow point of its place
C25_PassReplacesAllRecords ==
  [][ CoreLogic(FALSE) => OneRecordPerPlace' ]_vars

C25_Witness ==
  /\ Len(allPlacesFromStore) = 2
  /\ OneRecordPerPlace
  /\ processedPlaces[1].isInSun = FALSE
  /\ processedPlaces[2].isInSun = TRUE
  /\ processedPlaces[1].relevantShadowPoint # processedPlaces[2].relevantShadowPoint

\* C27: while the time is manually controlled, currentTime changes only by
\* switchToLiveTime, setManualTime or setIsTimeManuallyControlled(false); a
\* live tick leaves the time and the mode as they are
C27_ManualTimeIgnoresLiveTicks ==
  [][ isTimeManuallyControlled =>
        /\ LiveTick => (currentTime' = currentTime /\ isTimeManuallyControlled')
        /\ currentTime' # currentTime =>
             \/ GoLive
             \/ \E value \in SliderValues : SliderChange(value)
             \/ SetIsTimeManuallyControlled(FALSE) ]_vars

C27_Witness ==
  /\ isTimeManuallyControlled
  /\ tickCall # Null /\ ~ tickCall.taken
  /\ tickCall.time = clock
  /\ clock > ClockStart
  /\ currentTime = sliderValueToDate(50, ClockStart)

\* the ids of the processed places that have a point to mark
MarkedIds ==
  { processedPlaces[i].id :
      i \in { j \in DOMAIN processedPlaces : pointToMark(processedPlaces[j]) } }

\* C29: after every run of the marker effect on a ready map the tracked
\* markers are those of the processed places that have a point, and they are
\* on the map
C29_MarkersMatchProcessedPlaces ==
  [][ (mapRef /\ MarkerSync) =>
        (markerInstances' = MarkedIds /\ mapMarkers' = MarkedIds) ]_vars

\* C28: a Notification for a place is not followed by another one for the
\* same place by a run of the interval before the sun time the first predicted
C28_NoRepeatedAlertBeforeSunTime ==
  \A i, j \in DOMAIN notifications :
    (i < j /\ notifications[i].placeId = notifications[j].placeId)
      => notifications[j].at >= notifications[i].predictedSunTime

C28_Witness ==
  /\ notifications = << [ at |-> 5, placeId |-> 1, predictedSunTime |-> 20 ] >>
  /\ clock = 19
  /\ 1 \in bookmarks
  /\ Len(buildingsFromStore) = 1 /\ buildingsFromStore[1].height = 20
  /\ ~ currentlyInSun(allPlacesFromStore[1], clock)
  /\ alertOffsets(allPlacesFromStore[1], clock) # {}

\* the position of the first polygon of the largest area
FirstLargest(polygons) ==
  CHOOSE k \in DOMAIN polygons :
    /\ \A j \in DOMAIN polygons : Cardinality(polygons[j]) <= Cardinality(polygons[k])
    /\ \A j \in 1..(k - 1) : Cardinality(polygons[j]) < Cardinality(polygons[k])

\* the box [s, w, n, e] around a set of cells
BoxAround(cells) ==
  << Min({ c[2] : c \in cells }), Min({ c[1] : c \in cells }),
     Max({ c[2] : c \in cells }) + 1, Max({ c[1] : c \in cells }) + 1 >>

\* C22: of several uncovered regions the request targets the box around the
\* one of the largest area, and of regions of the same largest area the first
C22_TargetsFirstLargestRegion ==
  Ended("fetchOsmDataForUnfetchedAreas") =>
    LET polygons == libCall.outcome.value.unfetchedPolygons
    IN  Len(polygons) > 0 =>
          libCall.outcome.value.targetBbox = BoxAround(polygons[FirstLargest(polygons)])

C22_Witness ==
  /\ Ended("fetchOsmDataForUnfetchedAreas")
  /\ libCall.args = << << 0, 0, 1, 4 >>, << << 0, 1, 1, 2 >>, << 0, 3, 1, 4 >> >> >>
  /\ Len(libCall.outcome.value.unfetchedPolygons) = 2
  /\ libCall.outcome.value.targetBbox = << 0, 0, 1, 1 >>

\* the box has no area: turf.difference fails on it
BadEntry(box) == bboxToPolygon(box) = {}

\* C23: getUnfetchedAreas returns, and what it returns is the viewport less
\* every history entry the difference can be taken with, wherever in the
\* history an entry stands on which the difference fails
C23_BadEntryLeavesRemainder ==
  Ended("fetchOsmDataForUnfetchedAreas") =>
    LET history == libCall.args[2]
        polygons == libCall.outcome.value.unfetchedPolygons
        good == { i \in DOMAIN history : ~ BadEntry(history[i]) }
    IN  /\ libCall.outcome.kind = "returned"
        /\ UNION { polygons[k] : k \in DOMAIN polygons }
             = bboxToPolygon(libCall.args[1])
                 \ UNION { bboxToPolygon(history[i]) : i \in good }

C23_Witness ==
  /\ Ended("fetchOsmDataForUnfetchedAreas")
  /\ libCall.args = << << 0, 0, 1, 4 >>, << << 0, 2, 1, 2 >>, << 0, 0, 1, 1 >> >> >>
  /\ libCall.outcome.value.unfetchedPolygons = << bboxToPolygon(<< 0, 1, 1, 4 >>) >>

====
